---- MODULE Spec2Model ----
(***************************************************************************)
(* The rules engine of the Coup card game (GameEngine in game_engine.py),  *)
(* with the action library (actions.py) and the card catalog               *)
(* (influences.py).  The engine is a call-and-response automaton: the      *)
(* driver reads pending_decision and answers it with submit_decision.      *)
(*                                                                         *)
(* Players are indexed 0..n-1 as in the source; a hand is a sequence whose *)
(* Python index k is the TLA+ index k+1.  An Optional value is modelled as *)
(* a sequence of length 0 (None) or 1.                                     *)
(***************************************************************************)
EXTENDS Integers, Sequences, FiniteSets, TLC

VARIABLES influences, revealed_influences, coins, _deck, current_turn,
          pending_decision,
          _phase_action, _phase_defense, _phase_challenge, _phase_doubt_block,
          _phase_block_open, _phase_lose_inf, _phase_reveal,
          _action_seq, _last_action, raised

\* GameServer (coup_server.py): its fields, the position of every
\* handle_client coroutine and of every task that asks for the start, and
\* the number of GameEngine objects built so far
VARIABLES _game_started, _lobby_lock, _lobby_clients, _start_event,
          _auto_start, _human_queues, _writer_to_index, clients, tasks,
          engines_built

engine == <<influences, revealed_influences, coins, _deck, current_turn,
            pending_decision,
            _phase_action, _phase_defense, _phase_challenge, _phase_doubt_block,
            _phase_block_open, _phase_lose_inf, _phase_reveal>>

server == <<_game_started, _lobby_lock, _lobby_clients, _start_event,
            _auto_start, _human_queues, _writer_to_index, clients, tasks,
            engines_built>>

vars == <<engine, _action_seq, _last_action, raised, server>>

None == <<>>

Some(x) == <<x>>

\* Cap on the engine's submission counter _action_seq.
MaxSeq == 7

\* Unoffered choices are submitted only while _action_seq is below this.
MaxUnofferedSeq == 3

----------------------------------------------------------------------------
(* game_state.py: the enumerations *)

PICK_ACTION      == "pick_action"
PICK_TARGET      == "pick_target"
DEFEND           == "defend"
CHALLENGE_ACTION == "challenge_action"
CHALLENGE_BLOCK  == "challenge_block"
BLOCK_OR_PASS    == "block_or_pass"
LOSE_INFLUENCE   == "lose_influence"
REVEAL           == "reveal"

PASS         == "pass"
BLOCK        == "block"
DOUBT        == "doubt"
DOUBT_ACTION == "doubt_action"
ACCEPT       == "accept"
R_REVEAL     == "DecisionResponse.reveal"
REFUSE       == "refuse"

DecisionResponse == {PASS, BLOCK, DOUBT, DOUBT_ACTION, ACCEPT, R_REVEAL, REFUSE}

\* RevealContext (DOUBT_ACTION is shared with DecisionResponse by value)
DOUBT_BLOCK == "doubt_block"
DOUBT_OPEN  == "doubt_open"

----------------------------------------------------------------------------
(* influences.py: the card catalog.  A card is identified by its type. *)

Countess         == "Countess"
Assassin         == "Assassin"
Duke             == "Duke"
Captain          == "Captain"
IncomeAction     == "IncomeAction"
ForeignAidAction == "ForeignAidAction"
CoupAction       == "CoupAction"

Cards == {Countess, Assassin, Duke, Captain}

ALL_ACTIONS == <<IncomeAction, ForeignAidAction, Assassin, Duke, Captain, CoupAction>>

get_blockers(a) ==
    CASE a = Assassin         -> <<Countess>>
      [] a = Captain          -> <<Captain>>
      [] a = ForeignAidAction -> <<Duke>>
      [] OTHER                -> <<>>

has_defense(a) == get_blockers(a) # <<>>

get_block_name(a) == IF get_blockers(a) # <<>> THEN get_blockers(a)[1] ELSE ""

(* actions.py: the effect each card or general action delegates to *)

requires_target(a) == a \in {Assassin, Captain, CoupAction}

can_use_mut(a, c) ==
    CASE a = Assassin   -> c >= 3
      [] a = CoupAction -> c > 7
      [] OTHER          -> TRUE

can_use(a, c) ==
    CASE a = Assassin   -> c >= 3
      [] a = CoupAction -> c >= 7
      [] OTHER          -> TRUE

apply_cost_mut(a, cs, p) ==
    CASE a = Assassin   -> [cs EXCEPT ![p] = @ - 3]
      [] a = CoupAction -> [cs EXCEPT ![p] = @ - 10]
      [] OTHER          -> cs

apply_cost_late(a, cs, p) ==
    CASE a = Assassin   -> [cs EXCEPT ![p] = @ - 2]
      [] a = CoupAction -> [cs EXCEPT ![p] = @ - 7]
      [] OTHER          -> cs

apply_cost(a, cs, p) ==
    CASE a = Assassin   -> [cs EXCEPT ![p] = @ - 3]
      [] a = CoupAction -> [cs EXCEPT ![p] = @ - 7]
      [] OTHER          -> cs

causes_influence_loss_mut(a) == a \in {Assassin, CoupAction, Captain}

causes_influence_loss_coup(a) == a = CoupAction

causes_influence_loss(a) == a \in {Assassin, CoupAction}

is_challengeable_mut(a) == a \notin {IncomeAction, ForeignAidAction}

is_challengeable(a) == a \notin {IncomeAction, ForeignAidAction, CoupAction}

is_open_blockable(a) == a = ForeignAidAction

Min2(x, y) == IF x <= y THEN x ELSE y

apply_effect_mut(a, cs, p, t) ==
    CASE a = Captain ->
           [i \in DOMAIN cs |->
              cs[i] + (IF i = p THEN 2 ELSE 0) - (IF i = t THEN 2 ELSE 0)]
      [] a = ForeignAidAction -> [cs EXCEPT ![p] = @ + 2]
      [] OTHER -> cs

\* apply_effect(player, target): only Steal and Foreign Aid override it.
apply_effect(a, cs, p, t) ==
    CASE a = Captain ->
           LET stolen == Min2(2, cs[t])
           IN  [i \in DOMAIN cs |->
                  cs[i] + (IF i = p THEN stolen ELSE 0)
                        - (IF i = t THEN stolen ELSE 0)]
      [] a = ForeignAidAction -> [cs EXCEPT ![p] = @ + 2]
      [] OTHER -> cs

apply_mut(a, cs, p, t) ==
    CASE a = Duke         -> [cs EXCEPT ![p] = @ + 3]
      [] a = IncomeAction -> [cs EXCEPT ![p] = @ + 2]
      [] OTHER            -> apply_effect(a, cs, p, t)

\* apply(player, target): Tax and Income override it, the rest fall back
\* to apply_effect.
apply(a, cs, p, t) ==
    CASE a = Duke         -> [cs EXCEPT ![p] = @ + 3]
      [] a = IncomeAction -> [cs EXCEPT ![p] = @ + 1]
      [] OTHER            -> apply_effect(a, cs, p, t)

----------------------------------------------------------------------------
(* game_engine.py: turn helpers *)

NumPlayers(inf) == Cardinality(DOMAIN inf)

_next_turn_mut(inf, from_id) == (from_id + 1) % NumPlayers(inf)

_next_turn_stay(inf, from_id) == from_id

_next_turn(inf, from_id) ==
    LET n  == NumPlayers(inf)
        ks == {k \in 1..n : inf[(from_id + k) % n] # <<>>}
    IN  IF ks = {} THEN from_id
        ELSE (from_id + (CHOOSE k \in ks : \A j \in ks : k <= j)) % n

\* The list [i for i, p in enumerate(players) if p.influences], optionally
\* without one index: ascending player index.
RECURSIVE AliveFrom(_, _, _)
AliveFrom(inf, i, skip) ==
    IF i >= NumPlayers(inf) THEN <<>>
    ELSE (IF inf[i] # <<>> /\ i # skip THEN <<i>> ELSE <<>>)
         \o AliveFrom(inf, i + 1, skip)

_alive_indices(inf) == AliveFrom(inf, 0, -1)

alive_others_mut(inf, me) == AliveFrom([i \in DOMAIN inf |-> <<0>>], 0, me)

alive_others_self(inf, me) == AliveFrom(inf, 0, -1)

alive_others_all(inf, me) == [k \in 1..NumPlayers(inf) |-> k - 1]

alive_others(inf, me) == AliveFrom(inf, 0, me)

is_game_over_mut(inf) == Len(_alive_indices(inf)) < 1

is_game_over(inf) == Len(_alive_indices(inf)) <= 1

get_winner_mut(inf) ==
    IF Len(_alive_indices(inf)) >= 1 THEN Some(_alive_indices(inf)[1]) ELSE None

\* The winner's index stands for players[alive[0]].name.
get_winner(inf) ==
    IF Len(_alive_indices(inf)) = 1 THEN Some(_alive_indices(inf)[1]) ELSE None

has_card_mut(hand, name) == TRUE

has_card_any(hand, name) == hand # <<>>

has_card(hand, name) == \E k \in 1..Len(hand) : hand[k] = name

\* list.pop(idx) for a 0-based idx inside the list
Pop(hand, idx) == SubSeq(hand, 1, idx) \o SubSeq(hand, idx + 2, Len(hand))

\* range(len(hand)) as a list
Range0(n) == [k \in 1..n |-> k - 1]

Elems(seq) == {seq[k] : k \in 1..Len(seq)}

----------------------------------------------------------------------------
(* The engine as a record s of its fields; every handler maps s to the     *)
(* record after the call.                                                  *)

\* list.remove(card): drops the first occurrence
RemoveFirst(hand, name) ==
    LET k == CHOOSE j \in 1..Len(hand) :
                 hand[j] = name /\ \A i \in 1..(j - 1) : hand[i] # name
    IN  Pop(hand, k - 1)

_lose_one_or_choose_mut(s, player_idx, next_turn) ==
    LET hand == s.influences[player_idx]
    IN  IF Len(hand) < 1
        THEN [s EXCEPT !.current_turn = next_turn]
        ELSE [s EXCEPT !._phase_lose_inf =
                Some([target_idx |-> player_idx, next_turn |-> next_turn])]

_lose_one_or_choose_both(s, player_idx, next_turn) ==
    [s EXCEPT !.influences[player_idx] = <<>>,
              !.revealed_influences[player_idx] = @ \o s.influences[player_idx],
              !.current_turn = next_turn]

_lose_one_or_choose(s, player_idx, next_turn) ==
    LET hand == s.influences[player_idx]
    IN  IF Len(hand) <= 1
        THEN [s EXCEPT
                !.influences[player_idx] = IF hand # <<>> THEN Tail(hand) ELSE hand,
                !.revealed_influences[player_idx] =
                    IF hand # <<>> THEN Append(@, hand[1]) ELSE @,
                !.current_turn = next_turn]
        ELSE [s EXCEPT !._phase_lose_inf =
                Some([target_idx |-> player_idx, next_turn |-> next_turn])]

available_mut(c) ==
    IF c > 10 THEN <<CoupAction>>
    ELSE SelectSeq(ALL_ACTIONS, LAMBDA a : can_use(a, c))

available_free(c) == SelectSeq(ALL_ACTIONS, LAMBDA a : can_use(a, c))

\* The option list of a turn-start decision for a player holding c coins.
available(c) ==
    IF c >= 10 THEN <<CoupAction>>
    ELSE SelectSeq(ALL_ACTIONS, LAMBDA a : can_use(a, c))

Decision(p, dt, opts) ==
    [player_index |-> p, decision_type |-> dt, options |-> opts]

_emit_pending_decision(s) ==
    IF is_game_over(s.influences)
    THEN [s EXCEPT !.pending_decision = None]
    ELSE
      LET ct == IF s.influences[s.current_turn] = <<>>
                THEN _next_turn(s.influences, s.current_turn)
                ELSE s.current_turn
          pd ==
            IF s._phase_reveal # None THEN
                Decision(s._phase_reveal[1].challenged_player, REVEAL,
                         <<R_REVEAL, REFUSE>>)
            ELSE IF s._phase_lose_inf # None THEN
                Decision(s._phase_lose_inf[1].target_idx, LOSE_INFLUENCE,
                         Range0(Len(s.influences[s._phase_lose_inf[1].target_idx])))
            ELSE IF s._phase_challenge # None THEN
                Decision(s._phase_challenge[1].queue[1], CHALLENGE_ACTION,
                         <<DOUBT, PASS>>)
            ELSE IF s._phase_doubt_block # None THEN
                Decision(s._phase_doubt_block[1].queue[1], CHALLENGE_BLOCK,
                         <<DOUBT, PASS>>)
            ELSE IF s._phase_block_open # None THEN
                Decision(s._phase_block_open[1].queue[1], BLOCK_OR_PASS,
                         <<BLOCK, PASS>>)
            ELSE IF s._phase_defense # None THEN
                Decision(s._phase_defense[1].target_idx, DEFEND,
                         <<BLOCK, DOUBT_ACTION, ACCEPT>>)
            ELSE IF s._phase_action # None THEN
                Decision(ct, PICK_TARGET, alive_others(s.influences, ct))
            ELSE
                Decision(ct, PICK_ACTION, available(s.coins[ct]))
      IN  [s EXCEPT !.current_turn = ct, !.pending_decision = Some(pd)]

_on_pick_action(s, action) ==
    LET me == s.current_turn
    IN  IF requires_target(action) THEN
            [s EXCEPT !._phase_action = Some([action |-> action])]
        ELSE IF ~is_challengeable(action) THEN
            IF is_open_blockable(action) THEN
                [s EXCEPT !._phase_block_open =
                    Some([actor |-> me, action |-> action,
                          queue |-> alive_others(s.influences, me)])]
            ELSE
                [s EXCEPT !.coins = apply(action, s.coins, me, me),
                          !.current_turn = _next_turn(s.influences, me)]
        ELSE
            [s EXCEPT !._phase_challenge =
                Some([actor |-> me, action |-> action,
                      queue |-> alive_others(s.influences, me)])]

_on_pick_target_mut(s, target_idx) ==
    LET action    == s._phase_action[1].action
        me        == s.current_turn
        next_turn == _next_turn(s.influences, me)
    IN  IF ~is_challengeable(action) THEN
            _lose_one_or_choose(
                [s EXCEPT !.coins = apply_cost(action, s.coins, me)],
                target_idx, next_turn)
        ELSE
            [s EXCEPT !.coins = apply_cost(action, s.coins, me),
                      !._phase_defense =
                          Some([target_idx |-> target_idx, action |-> action])]

_on_pick_target(s, target_idx) ==
    LET action    == s._phase_action[1].action
        me        == s.current_turn
        next_turn == _next_turn(s.influences, me)
        s1        == [s EXCEPT !._phase_action = None]
    IN  IF target_idx >= NumPlayers(s.influences) THEN
            \* self.players[target_idx] raises before anything is assigned
            [s EXCEPT !.raised = "IndexError"]
        ELSE IF ~is_challengeable(action) THEN
            _lose_one_or_choose(
                [s1 EXCEPT !.coins = apply_cost(action, s.coins, me)],
                target_idx, next_turn)
        ELSE IF has_defense(action) THEN
            [s1 EXCEPT !.coins = apply_cost(action, s.coins, me),
                       !._phase_defense =
                           Some([target_idx |-> target_idx, action |-> action])]
        ELSE
            [s1 EXCEPT !.coins = apply(action, s.coins, me, target_idx),
                       !.current_turn = next_turn]

RevealPhase_mut(challenged, card, ctx, attacker, target, action, next_turn, doubter) ==
    Some([challenged_player |-> challenged, card_name |-> card,
          context |-> ctx, attacker |-> attacker, target |-> target,
          action |-> action, next_turn |-> next_turn,
          doubter |-> Some(challenged)])

RevealPhase(challenged, card, ctx, attacker, target, action, next_turn, doubter) ==
    Some([challenged_player |-> challenged, card_name |-> card,
          context |-> ctx, attacker |-> attacker, target |-> target,
          action |-> action, next_turn |-> next_turn, doubter |-> doubter])

_on_defend(s, choice) ==
    LET df         == s._phase_defense[1]
        target_idx == df.target_idx
        action     == df.action
        me         == s.current_turn
        next_turn  == _next_turn(s.influences, me)
        s1         == [s EXCEPT !._phase_defense = None]
    IN  IF choice = BLOCK THEN
            [s1 EXCEPT !._phase_doubt_block =
                Some([attacker |-> me, target |-> target_idx,
                      action |-> action, queue |-> <<me>>])]
        ELSE IF choice = DOUBT_ACTION THEN
            IF has_card(s.influences[me], action)
            THEN [s1 EXCEPT !._phase_reveal =
                    RevealPhase(me, action, DOUBT_ACTION, me, target_idx,
                                action, next_turn, None)]
            ELSE _lose_one_or_choose(s1, me, next_turn)
        ELSE
            IF causes_influence_loss(action)
            THEN _lose_one_or_choose(s1, target_idx, next_turn)
            ELSE [s1 EXCEPT
                    !.coins = apply_effect(action, s.coins, me, target_idx),
                    !.current_turn = next_turn]

_on_challenge_action_mut(s, choice) ==
    LET ch          == s._phase_challenge[1]
        actor_idx   == ch.actor
        doubter_idx == ch.queue[1]
        next_turn   == _next_turn(s.influences, actor_idx)
    IN  IF choice = DOUBT THEN
            LET s1 == [s EXCEPT !._phase_challenge = None]
            IN  IF has_card(s.influences[actor_idx], ch.action)
                THEN [s1 EXCEPT !._phase_reveal =
                        RevealPhase(actor_idx, ch.action, DOUBT_OPEN, actor_idx,
                                    actor_idx, ch.action, next_turn,
                                    Some(doubter_idx))]
                ELSE _lose_one_or_choose(s1, actor_idx, next_turn)
        ELSE IF choice = PASS THEN
            IF Tail(ch.queue) = <<>>
            THEN [s EXCEPT
                    !.coins = apply(ch.action, s.coins, actor_idx, actor_idx),
                    !._phase_challenge = None,
                    !.current_turn = next_turn]
            ELSE [s EXCEPT
                    !.coins = apply(ch.action, s.coins, actor_idx, actor_idx),
                    !._phase_challenge =
                        Some([ch EXCEPT !.queue = Tail(ch.queue)])]
        ELSE s

_on_challenge_action(s, choice) ==
    LET ch          == s._phase_challenge[1]
        actor_idx   == ch.actor
        doubter_idx == ch.queue[1]
        next_turn   == _next_turn(s.influences, actor_idx)
    IN  IF choice = DOUBT THEN
            LET s1 == [s EXCEPT !._phase_challenge = None]
            IN  IF has_card(s.influences[actor_idx], ch.action)
                THEN [s1 EXCEPT !._phase_reveal =
                        RevealPhase(actor_idx, ch.action, DOUBT_OPEN, actor_idx,
                                    actor_idx, ch.action, next_turn,
                                    Some(doubter_idx))]
                ELSE _lose_one_or_choose(s1, actor_idx, next_turn)
        ELSE IF choice = PASS THEN
            IF Tail(ch.queue) = <<>>
            THEN [s EXCEPT
                    !.coins = apply(ch.action, s.coins, actor_idx, actor_idx),
                    !._phase_challenge = None,
                    !.current_turn = next_turn]
            ELSE [s EXCEPT !._phase_challenge =
                    Some([ch EXCEPT !.queue = Tail(ch.queue)])]
        ELSE s

_on_challenge_block_mut(s, choice) ==
    LET db          == s._phase_doubt_block[1]
        attacker    == db.attacker
        target_idx  == db.target
        d_action    == db.action
        doubter_idx == db.queue[1]
        next_turn   == _next_turn(s.influences, attacker)
    IN  IF choice = DOUBT THEN
            LET s1 == [s EXCEPT !._phase_doubt_block = None]
            IN  IF has_card(s.influences[target_idx], get_block_name(d_action))
                THEN [s1 EXCEPT !._phase_reveal =
                        RevealPhase(target_idx, get_block_name(d_action),
                                    DOUBT_BLOCK, attacker, target_idx, d_action,
                                    next_turn, Some(doubter_idx))]
                ELSE _lose_one_or_choose(
                        [s1 EXCEPT !.coins =
                            IF ~causes_influence_loss(d_action)
                            THEN apply_effect(d_action, s.coins, attacker, target_idx)
                            ELSE s.coins],
                        target_idx, next_turn)
        ELSE IF choice = PASS THEN
            [s EXCEPT !.coins = apply_effect(d_action, s.coins, attacker, target_idx),
                      !._phase_doubt_block = None,
                      !.current_turn = next_turn]
        ELSE s

_on_challenge_block(s, choice) ==
    LET db          == s._phase_doubt_block[1]
        attacker    == db.attacker
        target_idx  == db.target
        d_action    == db.action
        doubter_idx == db.queue[1]
        next_turn   == _next_turn(s.influences, attacker)
    IN  IF choice = DOUBT THEN
            LET s1 == [s EXCEPT !._phase_doubt_block = None]
            IN  IF has_card(s.influences[target_idx], get_block_name(d_action))
                THEN [s1 EXCEPT !._phase_reveal =
                        RevealPhase(target_idx, get_block_name(d_action),
                                    DOUBT_BLOCK, attacker, target_idx, d_action,
                                    next_turn, Some(doubter_idx))]
                ELSE _lose_one_or_choose(
                        [s1 EXCEPT !.coins =
                            IF ~causes_influence_loss(d_action)
                            THEN apply_effect(d_action, s.coins, attacker, target_idx)
                            ELSE s.coins],
                        target_idx, next_turn)
        ELSE IF choice = PASS THEN
            IF Tail(db.queue) = <<>>
            THEN [s EXCEPT !._phase_doubt_block = None,
                           !.current_turn = next_turn]
            ELSE [s EXCEPT !._phase_doubt_block =
                    Some([db EXCEPT !.queue = Tail(db.queue)])]
        ELSE s

_on_block_or_pass_mut(s, choice) ==
    LET bo          == s._phase_block_open[1]
        actor_idx   == bo.actor
        blocker_idx == bo.queue[1]
        next_turn   == _next_turn(s.influences, actor_idx)
    IN  IF choice = BLOCK THEN
            [s EXCEPT !._phase_block_open = None,
                      !._phase_doubt_block =
                          Some([attacker |-> actor_idx, target |-> blocker_idx,
                                action |-> bo.action,
                                queue |-> <<actor_idx>> \o Tail(bo.queue)])]
        ELSE IF choice = PASS THEN
            IF Tail(bo.queue) = <<>>
            THEN [s EXCEPT
                    !.coins = apply(bo.action, s.coins, actor_idx, actor_idx),
                    !._phase_block_open = None,
                    !.current_turn = next_turn]
            ELSE [s EXCEPT !._phase_block_open =
                    Some([bo EXCEPT !.queue = Tail(bo.queue)])]
        ELSE s

_on_block_or_pass(s, choice) ==
    LET bo          == s._phase_block_open[1]
        actor_idx   == bo.actor
        blocker_idx == bo.queue[1]
        next_turn   == _next_turn(s.influences, actor_idx)
    IN  IF choice = BLOCK THEN
            [s EXCEPT !._phase_block_open = None,
                      !._phase_doubt_block =
                          Some([attacker |-> actor_idx, target |-> blocker_idx,
                                action |-> bo.action, queue |-> <<actor_idx>>])]
        ELSE IF choice = PASS THEN
            IF Tail(bo.queue) = <<>>
            THEN [s EXCEPT
                    !.coins = apply(bo.action, s.coins, actor_idx, actor_idx),
                    !._phase_block_open = None,
                    !.current_turn = next_turn]
            ELSE [s EXCEPT !._phase_block_open =
                    Some([bo EXCEPT !.queue = Tail(bo.queue)])]
        ELSE s

_on_lose_influence(s, card_idx) ==
    LET li     == s._phase_lose_inf[1]
        hand   == s.influences[li.target_idx]
        \* list.pop counts a negative index from the end of the list
        k      == IF card_idx < 0 THEN Len(hand) + card_idx ELSE card_idx
    IN  IF k < 0 \/ k >= Len(hand) THEN
            \* target.influences.pop(card_idx) raises
            [s EXCEPT !.raised = "IndexError"]
        ELSE
            [s EXCEPT !.influences[li.target_idx] = Pop(hand, k),
                      !.revealed_influences[li.target_idx] =
                          Append(@, hand[k + 1]),
                      !._phase_lose_inf = None,
                      !.current_turn = li.next_turn]

\* The deck is a bag of cards: random.shuffle destroys its order before
\* every pop, so only the counts are observable.
DeckAdd_mut(bag, c) == bag

DeckAdd(bag, c) == [bag EXCEPT ![c] = @ + 1]

DeckTake(bag, c) == [bag EXCEPT ![c] = @ - 1]

\* has_card and self._deck is not None: the reveal exchanges the card
exchanges(s, choice) ==
    /\ choice = R_REVEAL
    /\ has_card(s.influences[s._phase_reveal[1].challenged_player],
                s._phase_reveal[1].card_name)
    /\ s._deck # None

\* The cards random.shuffle followed by pop() can deliver.
Draws(s, choice) ==
    IF exchanges(s, choice)
    THEN {c \in Cards : DeckAdd(s._deck[1], s._phase_reveal[1].card_name)[c] > 0}
    ELSE {""}

exchange_mut(s, p, card_name, drawn) ==
    [s EXCEPT !.influences[p] = Append(@, drawn),
              !._deck = Some(DeckTake(s._deck[1], drawn))]

\* remove the revealed card, return it to the deck, shuffle, draw one
exchange(s, p, card_name, drawn) ==
    [s EXCEPT !.influences[p] = Append(RemoveFirst(@, card_name), drawn),
              !._deck = Some(DeckTake(DeckAdd(s._deck[1], card_name), drawn))]

_on_reveal_mut(s, choice, drawn) ==
    LET rv           == s._phase_reveal[1]
        ctx          == rv.context
        card_name    == rv.card_name
        action       == rv.action
        next_turn    == rv.next_turn
        attacker_idx == rv.attacker
        target_idx   == rv.target
        has          == has_card(s.influences[rv.challenged_player], card_name)
        s0           == [s EXCEPT !._phase_reveal = None]
        s1           == IF choice = R_REVEAL /\ has /\ s._deck # None
                        THEN exchange(s0, rv.challenged_player, card_name, drawn)
                        ELSE s0
    IN  IF ctx = DOUBT_ACTION THEN
            IF has
            THEN _lose_one_or_choose(
                    [s1 EXCEPT !.coins =
                        apply_effect(action, s1.coins, attacker_idx, target_idx)],
                    target_idx, next_turn)
            ELSE _lose_one_or_choose(s1, attacker_idx, next_turn)
        ELSE IF ctx = DOUBT_BLOCK THEN
            IF has
            THEN _lose_one_or_choose(s1, rv.doubter[1], next_turn)
            ELSE _lose_one_or_choose(
                    [s1 EXCEPT !.coins =
                        IF ~causes_influence_loss(action)
                        THEN apply_effect(action, s1.coins, attacker_idx,
                                          rv.challenged_player)
                        ELSE s1.coins],
                    target_idx, next_turn)
        ELSE IF ctx = DOUBT_OPEN THEN
            IF has
            THEN _lose_one_or_choose(
                    [s1 EXCEPT !.coins =
                        apply(action, s1.coins, rv.challenged_player,
                              rv.challenged_player)],
                    rv.doubter[1], next_turn)
            ELSE _lose_one_or_choose(s1, attacker_idx, next_turn)
        ELSE s1

_on_reveal(s, choice, drawn) ==
    LET rv           == s._phase_reveal[1]
        ctx          == rv.context
        card_name    == rv.card_name
        action       == rv.action
        next_turn    == rv.next_turn
        attacker_idx == rv.attacker
        target_idx   == rv.target
        has          == /\ choice = R_REVEAL
                        /\ has_card(s.influences[rv.challenged_player], card_name)
        s0           == [s EXCEPT !._phase_reveal = None]
        s1           == IF has /\ s._deck # None
                        THEN exchange(s0, rv.challenged_player, card_name, drawn)
                        ELSE s0
    IN  IF ctx = DOUBT_ACTION THEN
            IF has
            THEN _lose_one_or_choose(
                    [s1 EXCEPT !.coins =
                        apply_effect(action, s1.coins, attacker_idx, target_idx)],
                    target_idx, next_turn)
            ELSE _lose_one_or_choose(s1, attacker_idx, next_turn)
        ELSE IF ctx = DOUBT_BLOCK THEN
            IF has
            THEN _lose_one_or_choose(s1, rv.doubter[1], next_turn)
            ELSE _lose_one_or_choose(
                    [s1 EXCEPT !.coins =
                        IF ~causes_influence_loss(action)
                        THEN apply_effect(action, s1.coins, attacker_idx,
                                          rv.challenged_player)
                        ELSE s1.coins],
                    target_idx, next_turn)
        ELSE IF ctx = DOUBT_OPEN THEN
            IF has
            THEN _lose_one_or_choose(
                    [s1 EXCEPT !.coins =
                        apply(action, s1.coins, rv.challenged_player,
                              rv.challenged_player)],
                    rv.doubter[1], next_turn)
            ELSE _lose_one_or_choose(s1, attacker_idx, next_turn)
        ELSE s1

\* handlers[dt](choice)
dispatch(s, dt, choice, drawn) ==
    CASE dt = PICK_ACTION      -> _on_pick_action(s, choice)
      [] dt = PICK_TARGET      -> _on_pick_target(s, choice)
      [] dt = DEFEND           -> _on_defend(s, choice)
      [] dt = CHALLENGE_ACTION -> _on_challenge_action(s, choice)
      [] dt = CHALLENGE_BLOCK  -> _on_challenge_block(s, choice)
      [] dt = BLOCK_OR_PASS    -> _on_block_or_pass(s, choice)
      [] dt = LOSE_INFLUENCE   -> _on_lose_influence(s, choice)
      [] dt = REVEAL           -> _on_reveal(s, choice, drawn)

\* choice.value, choice.get_name() or str(choice)
choice_str(dt, choice) ==
    IF dt \in {PICK_TARGET, LOSE_INFLUENCE} THEN ToString(choice) ELSE choice

_set_last_action(s, player_idx, dt, choice) ==
    [s EXCEPT !._action_seq = @ + 1,
              !._last_action = Some([player_idx |-> player_idx,
                                     decision_type |-> dt,
                                     choice |-> choice_str(dt, choice)])]

no_pending_mut(s) ==
    [s EXCEPT !.pending_decision = None, !._action_seq = @ + 1,
              !.raised = "AttributeError"]

\* assert self.pending_decision is not None: the call raises before it
\* touches the engine
no_pending(s) == [s EXCEPT !.raised = "AssertionError"]

\* A handler that raises leaves submit_decision before the closing
\* _emit_pending_decision.
submit_decision(s, choice, drawn) ==
    IF s.pending_decision = None THEN no_pending(s)
    ELSE LET pd == s.pending_decision[1]
             s1 == _set_last_action([s EXCEPT !.raised = ""], pd.player_index,
                                    pd.decision_type, choice)
             s2 == dispatch([s1 EXCEPT !.pending_decision = None],
                            pd.decision_type, choice, drawn)
         IN  IF s2.raised # "" THEN s2 ELSE _emit_pending_decision(s2)

\* how many copies of card c the sequence holds
CountIn(seq, c) == Cardinality({k \in DOMAIN seq : seq[k] = c})

\* the hand as the viewer's snapshot lists it
visible_influences_mut(s, i, viewer_index) == s.influences[i]

visible_influences(s, i, viewer_index) ==
    IF i = viewer_index THEN s.influences[i] ELSE <<>>

\* get_state_view, first loop: one PlayerStateView per seat (the name,
\* display text, is left out)
player_views(s, viewer_index) ==
    [i \in 0..(NumPlayers(s.influences) - 1) |->
       [index               |-> i,
        coins               |-> s.coins[i],
        influence_count     |-> Len(s.influences[i]),
        influences          |-> visible_influences(s, i, viewer_index),
        revealed_influences |-> s.revealed_influences[i],
        is_eliminated       |-> Len(s.influences[i]) = 0]]

\* get_state_view, second loop: the copies of every card name over the
\* deck (or [] without one), all hands and all discard piles
cards_per_type(s) ==
    LET n == NumPlayers(s.influences)
        inPlay(i, c) == CountIn(s.influences[i], c)
                        + CountIn(s.revealed_influences[i], c)
        RECURSIVE upTo(_, _)
        upTo(i, c) == IF i < 0 THEN 0 ELSE inPlay(i, c) + upTo(i - 1, c)
        total(c) == (IF s._deck = None THEN 0 ELSE s._deck[1][c]) + upTo(n - 1, c)
    IN  [c \in {x \in Cards : total(x) > 0} |-> total(c)]

\* get_state_view(viewer_index): the snapshot sent to one player (without
\* the event log, which is display text)
get_state_view(s, viewer_index) ==
    [players          |-> player_views(s, viewer_index),
     current_turn     |-> s.current_turn,
     pending_decision |-> s.pending_decision,
     viewer_index     |-> viewer_index,
     cards_per_type   |-> cards_per_type(s),
     last_action      |-> s._last_action]

----------------------------------------------------------------------------
(* The engine's fields as state *)

Self ==
    [influences |-> influences, revealed_influences |-> revealed_influences,
     coins |-> coins, _deck |-> _deck, current_turn |-> current_turn,
     pending_decision |-> pending_decision,
     _phase_action |-> _phase_action, _phase_defense |-> _phase_defense,
     _phase_challenge |-> _phase_challenge,
     _phase_doubt_block |-> _phase_doubt_block,
     _phase_block_open |-> _phase_block_open,
     _phase_lose_inf |-> _phase_lose_inf, _phase_reveal |-> _phase_reveal,
     _action_seq |-> _action_seq, _last_action |-> _last_action,
     raised |-> raised]

\* the engine's fields after a call that left it as s
Assigned(s) ==
    /\ influences' = s.influences
    /\ revealed_influences' = s.revealed_influences
    /\ coins' = s.coins
    /\ _deck' = s._deck
    /\ current_turn' = s.current_turn
    /\ pending_decision' = s.pending_decision
    /\ _phase_action' = s._phase_action
    /\ _phase_defense' = s._phase_defense
    /\ _phase_challenge' = s._phase_challenge
    /\ _phase_doubt_block' = s._phase_doubt_block
    /\ _phase_block_open' = s._phase_block_open
    /\ _phase_lose_inf' = s._phase_lose_inf
    /\ _phase_reveal' = s._phase_reveal
    /\ _action_seq' = s._action_seq
    /\ _last_action' = s._last_action
    /\ raised' = s.raised

\* a call made by a driver that holds the engine directly (the tests, the
\* local game): no server object is involved
Becomes(s) == Assigned(s) /\ UNCHANGED server

\* Hands the games start from: the deals of the test suite's engines, 2 to 4
\* seats, with seats already eliminated or holding a single card.
StartHands ==
    { <<<<Duke, Assassin>>, <<Captain, Countess>>>>,
      <<<<Duke, Countess>>, <<Captain, Duke>>>>,
      <<<<Duke>>, <<>>>>,
      <<<<Duke, Assassin>>, <<Captain>>>>,
      <<<<Duke, Assassin>>, <<Captain, Countess>>, <<Duke, Captain>>>>,
      <<<<Duke, Assassin>>, <<Captain>>, <<Duke, Captain>>>>,
      <<<<Assassin>>, <<Countess>>, <<Captain>>>>,
      <<<<Duke, Assassin>>, <<>>, <<>>, <<Captain, Countess>>>> }

\* Coin balances a seat starts with: Player.__init__ gives 2; the tests
\* preset a seat to 9 before the engine is built.
StartCoins == {2, 9}

\* deck=None, or what is left of the deck after the deal
StartDecks ==
    { None,
      Some([c \in Cards |-> IF c = Countess THEN 1 ELSE 0]),
      Some([c \in Cards |-> IF c \in {Duke, Captain} THEN 1 ELSE 0]) }

\* GameEngine.__init__(players, deck): hands is the list of the players'
\* hands, cs their coin balances
GameEngine(hands, cs, deck) ==
    _emit_pending_decision(
       [influences |-> [i \in 0..(Len(hands) - 1) |-> hands[i + 1]],
        revealed_influences |-> [i \in 0..(Len(hands) - 1) |-> <<>>],
        coins |-> cs, _deck |-> deck, current_turn |-> 0,
        pending_decision |-> None,
        _phase_action |-> None, _phase_defense |-> None,
        _phase_challenge |-> None, _phase_doubt_block |-> None,
        _phase_block_open |-> None, _phase_lose_inf |-> None,
        _phase_reveal |-> None,
        _action_seq |-> 0, _last_action |-> None, raised |-> ""])

\* the engine's fields are those of s
Holds(s) ==
    /\ influences = s.influences
    /\ revealed_influences = s.revealed_influences
    /\ coins = s.coins
    /\ _deck = s._deck
    /\ current_turn = s.current_turn
    /\ pending_decision = s.pending_decision
    /\ _phase_action = s._phase_action
    /\ _phase_defense = s._phase_defense
    /\ _phase_challenge = s._phase_challenge
    /\ _phase_doubt_block = s._phase_doubt_block
    /\ _phase_block_open = s._phase_block_open
    /\ _phase_lose_inf = s._phase_lose_inf
    /\ _phase_reveal = s._phase_reveal
    /\ _action_seq = s._action_seq
    /\ _last_action = s._last_action
    /\ raised = s.raised

\* the connections a server may get
Clients == {"c1", "c2"}

\* the tasks that may ask for the start: the start_game task a joining
\* client spawns under auto_start, the host's button, the console
Tasks == Clients \cup {"host", "console"}

\* GameServer.__init__(auto_start); no connection yet, nothing asked
GameServer(auto_start) ==
    /\ _game_started = FALSE
    /\ _lobby_lock = None
    /\ _lobby_clients = <<>>
    /\ _start_event = FALSE
    /\ _auto_start = auto_start
    /\ _human_queues = <<>>
    /\ _writer_to_index = <<>>
    /\ clients = [c \in Clients |-> "connecting"]
    /\ tasks = [k \in Tasks |-> "idle"]
    /\ engines_built = 0

\* an engine built by its driver
Init ==
    /\ \E hands \in StartHands, deck \in StartDecks :
         \E cs \in [0..(Len(hands) - 1) -> StartCoins] :
            Holds(GameEngine(hands, cs, deck))
    /\ GameServer(FALSE)

\* stands for "nothing is drawn" where no reveal is answered
NoDraw == ""

Pending(dt) ==
    /\ pending_decision # None
    /\ pending_decision[1].decision_type = dt
    /\ _action_seq < MaxSeq

Offered == Elems(pending_decision[1].options)

\* submit_decision with an offered option, one action per handler
PickAction ==
    /\ Pending(PICK_ACTION)
    /\ \E choice \in Offered : Becomes(submit_decision(Self, choice, NoDraw))

PickTarget ==
    /\ Pending(PICK_TARGET)
    /\ \E choice \in Offered : Becomes(submit_decision(Self, choice, NoDraw))

Defend ==
    /\ Pending(DEFEND)
    /\ \E choice \in Offered : Becomes(submit_decision(Self, choice, NoDraw))

ChallengeAction ==
    /\ Pending(CHALLENGE_ACTION)
    /\ \E choice \in Offered : Becomes(submit_decision(Self, choice, NoDraw))

ChallengeBlock ==
    /\ Pending(CHALLENGE_BLOCK)
    /\ \E choice \in Offered : Becomes(submit_decision(Self, choice, NoDraw))

BlockOrPass ==
    /\ Pending(BLOCK_OR_PASS)
    /\ \E choice \in Offered : Becomes(submit_decision(Self, choice, NoDraw))

LoseInfluence ==
    /\ Pending(LOSE_INFLUENCE)
    /\ \E choice \in Offered : Becomes(submit_decision(Self, choice, NoDraw))

Reveal ==
    /\ Pending(REVEAL)
    /\ \E choice \in Offered :
         \E drawn \in Draws(Self, choice) :
            Becomes(submit_decision(Self, choice, drawn))

\* submit_decision once the game is over
SubmitNoPending ==
    /\ pending_decision = None
    /\ \E choice \in DecisionResponse : Becomes(submit_decision(Self, choice, NoDraw))

Next ==
    \/ PickAction
    \/ PickTarget
    \/ Defend
    \/ ChallengeAction
    \/ ChallengeBlock
    \/ BlockOrPass
    \/ LoseInfluence
    \/ Reveal
    \/ SubmitNoPending

Spec == Init /\ [][Next]_vars

----------------------------------------------------------------------------
(* A caller that does not keep to the offered options: values of the type  *)
(* the decision kind expects that are not in pending_decision.options.     *)

WellTyped(dt) ==
    CASE dt = PICK_ACTION    -> Elems(ALL_ACTIONS)
      [] dt = PICK_TARGET    -> 0..NumPlayers(influences)
      [] dt = LOSE_INFLUENCE ->
            (-1)..Len(influences[pending_decision[1].player_index])
      [] OTHER               -> DecisionResponse

Unoffered == WellTyped(pending_decision[1].decision_type) \ Offered

SubmitUnoffered ==
    /\ pending_decision # None
    /\ _action_seq < MaxUnofferedSeq
    /\ \E choice \in Unoffered : Becomes(submit_decision(Self, choice, NoDraw))

NextAny == Next \/ SubmitUnoffered

SpecAny == Init /\ [][NextAny]_vars

----------------------------------------------------------------------------
(* coup_server.py: the lobby, the start of the game and the game loop.     *)
(* Every coroutine runs on one event loop, so a step is the code between   *)
(* two awaits that can suspend.  A JSON value on the wire is modelled by   *)
(* its text.                                                               *)

MIN_PLAYERS == 4

MAX_PLAYERS == 6

\* Cap on the engine's submission counter in a game run by the server.
MaxServerSeq == 3

\* Cap on the choices waiting in the players' queues, all queues together.
MaxQueued == 1

\* the engine's variables, written by submit_decision only
game == <<engine, _action_seq, _last_action, raised>>

\* self._engine = None: no engine object yet
NoEngine ==
    [influences |-> <<>>, revealed_influences |-> <<>>, coins |-> <<>>,
     _deck |-> None, current_turn |-> 0, pending_decision |-> None,
     _phase_action |-> None, _phase_defense |-> None,
     _phase_challenge |-> None, _phase_doubt_block |-> None,
     _phase_block_open |-> None, _phase_lose_inf |-> None,
     _phase_reveal |-> None,
     _action_seq |-> 0, _last_action |-> None, raised |-> ""]

\* three copies of each card; the shuffle leaves the counts
_build_deck == [c \in Cards |-> 3]

\* the hands two pops per name can give to four names
DealtHands ==
    { <<<<Duke, Assassin>>, <<Captain, Countess>>,
        <<Duke, Captain>>, <<Assassin, Countess>>>>,
      <<<<Captain, Captain>>, <<Duke, Duke>>,
        <<Countess, Assassin>>, <<Assassin, Countess>>>> }

RECURSIVE Dealt(_, _, _)
Dealt(hands, i, c) ==
    IF i = 0 THEN 0 ELSE CountIn(hands[i], c) + Dealt(hands, i - 1, c)

\* _deal_players pops the hands off the deck: the deck it leaves
_deal_players(hands, deck) ==
    [c \in Cards |-> deck[c] - Dealt(hands, Len(hands), c)]

\* all_names: the humans of the lobby, padded with bots to MIN_PLAYERS
all_names(n_humans) ==
    IF n_humans < MIN_PLAYERS THEN MIN_PLAYERS ELSE n_humans

\* Influence.get_name() of the actions a player may pick
get_name(a) ==
    CASE a = IncomeAction     -> "Renda"
      [] a = ForeignAidAction -> "Ajuda Externa"
      [] a = Assassin         -> "Assassino"
      [] a = Duke             -> "Duque"
      [] a = Captain          -> "Capitao"
      [] a = CoupAction       -> "Golpe"
      [] a = Countess         -> "Condessa"

\* DecisionResponse.value
value(r) == IF r = R_REVEAL THEN "reveal" ELSE r

\* int(choice_raw): the texts it accepts here, anything else is a ValueError
int(choice_raw) ==
    CASE choice_raw = "0" -> Some(0)
      [] choice_raw = "1" -> Some(1)
      [] choice_raw = "2" -> Some(2)
      [] OTHER            -> None

\* _deserialize_choice(choice_raw, decision): Some(choice), or None where it
\* raises StopIteration or ValueError
_deserialize_choice(choice_raw, decision) ==
    IF decision.decision_type = PICK_ACTION
    THEN LET named == SelectSeq(decision.options,
                                LAMBDA a : get_name(a) = choice_raw)
         IN  IF named = <<>> THEN None ELSE Some(named[1])
    ELSE IF decision.decision_type \in {PICK_TARGET, LOSE_INFLUENCE}
    THEN int(choice_raw)
    ELSE LET named == {r \in DecisionResponse : value(r) = choice_raw}
         IN  IF named = {} THEN None ELSE Some(CHOOSE r \in named : TRUE)

\* the "choice" values a connection sends in a decision message
RawChoices == {"Renda", "Capitao", "0", "1", "pass", "junk"}

\* if self._game_started: return  (start_game, inside the lock)
double_start_mut(started) == FALSE

double_start(started) == started

\* handle_client, step 2: the lock is taken and the client is added to the
\* lobby or rejected; the coroutine then awaits a write with the lock held
HandleClientJoin(c) ==
    /\ clients[c] = "connecting"
    /\ _lobby_lock = None
    /\ _lobby_lock' = Some(c)
    /\ IF _game_started \/ Len(_lobby_clients) >= MAX_PLAYERS
       THEN /\ clients' = [clients EXCEPT ![c] = "rejected"]
            /\ UNCHANGED _lobby_clients
       ELSE /\ clients' = [clients EXCEPT ![c] = "joined"]
            /\ _lobby_clients' = Append(_lobby_clients, c)
    /\ UNCHANGED <<game, _game_started, _start_event, _auto_start,
                   _human_queues, _writer_to_index, tasks, engines_built>>

\* handle_client after that write: the lock is released; a rejected
\* connection is closed, a client of the lobby spawns start_game under
\* auto_start and waits for the start event
HandleClientJoined(c) ==
    /\ clients[c] \in {"joined", "rejected"}
    /\ _lobby_lock' = None
    /\ IF clients[c] = "rejected"
       THEN /\ clients' = [clients EXCEPT ![c] = "closed"]
            /\ UNCHANGED tasks
       ELSE /\ clients' = [clients EXCEPT ![c] = "waiting"]
            /\ tasks' = IF _auto_start /\ ~_game_started
                        THEN [tasks EXCEPT ![c] = "start_game"]
                        ELSE tasks
    /\ UNCHANGED <<game, _game_started, _lobby_clients, _start_event,
                   _auto_start, _human_queues, _writer_to_index,
                   engines_built>>

RECURSIVE Queued(_, _)
Queued(queues, i) ==
    IF i < 0 THEN 0 ELSE Len(queues[i]) + Queued(queues, i - 1)

\* handle_client, step 4: a decision message is read and its choice is put
\* on the player's queue; sent_at notes the submission counter at that
\* moment (it is not a field of the message)
HandleClientDecision(c) ==
    /\ clients[c] = "waiting"
    /\ _start_event
    /\ c \in DOMAIN _writer_to_index
    /\ Queued(_human_queues, Len(_lobby_clients) - 1) < MaxQueued
    /\ \E choice_raw \in RawChoices :
          _human_queues' =
             [_human_queues EXCEPT ![_writer_to_index[c]] =
                 Append(@, [choice |-> choice_raw, sent_at |-> _action_seq])]
    /\ UNCHANGED <<game, _game_started, _lobby_lock, _lobby_clients,
                   _start_event, _auto_start, _writer_to_index, clients,
                   tasks, engines_built>>

\* request_start_threadsafe: the host's button schedules _do_start
RequestStart ==
    /\ tasks["host"] = "idle"
    /\ ~_game_started
    /\ tasks' = [tasks EXCEPT !["host"] = "_do_start"]
    /\ UNCHANGED <<game, _game_started, _lobby_lock, _lobby_clients,
                   _start_event, _auto_start, _human_queues,
                   _writer_to_index, clients, engines_built>>

\* _do_start
DoStart ==
    /\ tasks["host"] = "_do_start"
    /\ tasks' = [tasks EXCEPT !["host"] =
                    IF ~_game_started /\ _lobby_clients # <<>>
                    THEN "start_game" ELSE "done"]
    /\ UNCHANGED <<game, _game_started, _lobby_lock, _lobby_clients,
                   _start_event, _auto_start, _human_queues,
                   _writer_to_index, clients, engines_built>>

\* _console_loop reads 's': it stops when the game has started, goes on
\* reading while the lobby is empty, and calls start_game otherwise
ConsoleLoop ==
    /\ tasks["console"] = "idle"
    /\ _game_started \/ _lobby_clients # <<>>
    /\ tasks' = [tasks EXCEPT !["console"] =
                    IF _game_started THEN "done" ELSE "start_game"]
    /\ UNCHANGED <<game, _game_started, _lobby_lock, _lobby_clients,
                   _start_event, _auto_start, _human_queues,
                   _writer_to_index, clients, engines_built>>

\* start_game: once the lock is free, the guard and everything after it up
\* to the first await of _game_loop run without a suspension
StartGame(k) ==
    /\ tasks[k] = "start_game"
    /\ _lobby_lock = None
    /\ IF double_start(_game_started)
       THEN /\ tasks' = [tasks EXCEPT ![k] = "returned"]
            /\ UNCHANGED <<game, _game_started, _start_event, _human_queues,
                           _writer_to_index, engines_built>>
       ELSE /\ _game_started' = TRUE
            /\ \E hands \in {h \in DealtHands :
                               Len(h) = all_names(Len(_lobby_clients))} :
                  Assigned(GameEngine(hands,
                                      [i \in 0..(Len(hands) - 1) |-> 2],
                                      Some(_deal_players(hands, _build_deck))))
            /\ engines_built' = engines_built + 1
            /\ _writer_to_index' =
                  [c \in Elems(_lobby_clients) |->
                     (CHOOSE i \in 1..Len(_lobby_clients) :
                         _lobby_clients[i] = c) - 1]
            /\ _human_queues' =
                  [i \in 0..(Len(_lobby_clients) - 1) |-> <<>>]
            /\ _start_event' = TRUE
            /\ tasks' = [tasks EXCEPT ![k] = "_game_loop"]
    /\ UNCHANGED <<_lobby_lock, _lobby_clients, _auto_start, clients>>

\* the cards a reveal exchange can deliver when choice answers the pending
\* decision; nothing is drawn for any other decision
Drawn(choice) ==
    IF pending_decision[1].decision_type = REVEAL
    THEN Draws(Self, choice) ELSE {NoDraw}

\* _tick_bots, one round of its loop: the pending decision is a bot's, the
\* bot returns one of decision.options and it is submitted
TickBots(k) ==
    /\ tasks[k] = "_game_loop"
    /\ pending_decision # None
    /\ pending_decision[1].player_index \notin DOMAIN _human_queues
    /\ _action_seq < MaxServerSeq
    /\ \E choice \in Offered :
         \E drawn \in Drawn(choice) :
            Assigned(submit_decision(Self, choice, drawn))
    /\ UNCHANGED server

\* _game_loop, one round for a human's decision: the oldest choice on the
\* owner's queue is taken and deserialized; a value that does not
\* deserialize is dropped, any other is submitted.  An exception of the
\* engine ends the loop.
GameLoop(k) ==
    /\ tasks[k] = "_game_loop"
    /\ pending_decision # None
    /\ pending_decision[1].player_index \in DOMAIN _human_queues
    /\ _human_queues[pending_decision[1].player_index] # <<>>
    /\ _action_seq < MaxServerSeq
    /\ _human_queues' =
          [_human_queues EXCEPT ![pending_decision[1].player_index] = Tail(@)]
    /\ \E choice \in
          {_deserialize_choice(
              Head(_human_queues[pending_decision[1].player_index]).choice,
              pending_decision[1])} :
          IF choice = None
          THEN UNCHANGED <<game, tasks>>
          ELSE \E drawn \in Drawn(choice[1]) :
                 \E s \in {submit_decision(Self, choice[1], drawn)} :
                    /\ Assigned(s)
                    /\ tasks' = [tasks EXCEPT ![k] =
                                    IF s.raised # "" THEN "raised"
                                    ELSE "_game_loop"]
    /\ UNCHANGED <<_game_started, _lobby_lock, _lobby_clients, _start_event,
                   _auto_start, _writer_to_index, clients, engines_built>>

\* GameServer(auto_start), before any connection
InitServer ==
    /\ Holds(NoEngine)
    /\ \E auto_start \in BOOLEAN : GameServer(auto_start)

NextServer ==
    \/ \E c \in Clients : HandleClientJoin(c)
    \/ \E c \in Clients : HandleClientJoined(c)
    \/ \E c \in Clients : HandleClientDecision(c)
    \/ RequestStart
    \/ DoStart
    \/ ConsoleLoop
    \/ \E k \in Tasks : StartGame(k)
    \/ \E k \in Tasks : TickBots(k)
    \/ \E k \in Tasks : GameLoop(k)

SpecServer == InitServer /\ [][NextServer]_vars

----------------------------------------------------------------------------
(* Properties *)

Seats == DOMAIN influences

Alive == {i \in Seats : influences[i] # <<>>}

PhaseRecords ==
    <<_phase_action, _phase_defense, _phase_challenge, _phase_doubt_block,
      _phase_block_open, _phase_lose_inf, _phase_reveal>>

ActivePhases == {k \in 1..7 : PhaseRecords[k] # None}

IsPending(dt) ==
    pending_decision # None /\ pending_decision[1].decision_type = dt

Owner == pending_decision[1].player_index

\* C1: at most one of the seven phase records is set, and none of them is
\* set while a turn-start (PICK_ACTION) decision is pending.
C1_OnePhase ==
    /\ Cardinality(ActivePhases) <= 1
    /\ IsPending(PICK_ACTION) => ActivePhases = {}

C1_Witness ==
    /\ _phase_lose_inf # None
    /\ _last_action # None
    /\ _last_action[1].decision_type = PICK_TARGET

\* C2: no decision is pending exactly when at most one seat is alive;
\* otherwise the one pending decision belongs to one seat of the table.
C2_PendingIffNotOver ==
    /\ (pending_decision = None) <=> (Cardinality(Alive) <= 1)
    /\ Len(pending_decision) <= 1
    /\ pending_decision # None => Owner \in Seats

C2_Witness ==
    /\ pending_decision = None
    /\ _action_seq > 0
    /\ raised = ""

\* C3: is_game_over() holds exactly when one seat has a non-empty hand, and
\* get_winner() names that seat then and nobody otherwise.
C3_GameOverIffOneAlive ==
    /\ is_game_over(influences) <=> (Cardinality(Alive) = 1)
    /\ Cardinality(Alive) = 1 => get_winner(influences) = Some(CHOOSE i \in Alive : TRUE)
    /\ Cardinality(Alive) # 1 => get_winner(influences) = None

C3_Witness ==
    /\ Cardinality(Alive) = 1
    /\ _action_seq > 0
    /\ \E i \in Seats : influences[i] = <<>> /\ revealed_influences[i] # <<>>

\* C4: a seat's hand and discard pile together always hold the cards it was
\* dealt (two at most, so 2 for a seat dealt 2), a hand never holds more
\* than 2 cards, and a successful reveal leaves the revealing hand's size
\* as it was.
C4_CardCount ==
    /\ [](\A i \in Seats :
            /\ Len(influences[i]) <= 2
            /\ Len(influences[i]) + Len(revealed_influences[i]) <= 2)
    /\ [][\A i \in Seats :
            Len(influences'[i]) + Len(revealed_influences'[i])
              = Len(influences[i]) + Len(revealed_influences[i])]_vars
    /\ [][(/\ IsPending(REVEAL)
           /\ _action_seq' = _action_seq + 1
           /\ _last_action'[1].choice = R_REVEAL)
          => Len(influences'[Owner]) = Len(influences[Owner])]_vars

\* a revealed card came back from the deck as a different card
C4_Witness ==
    /\ _last_action # None
    /\ _last_action[1].decision_type = REVEAL
    /\ _last_action[1].choice = R_REVEAL
    /\ _deck # None
    /\ \E i \in Seats :
         /\ i = _last_action[1].player_idx
         /\ Len(influences[i]) = 2
         /\ influences[i][2] = Countess

\* C5: no coin balance is ever negative when only offered options are
\* submitted.
C5_CoinsNonNegative == \A i \in Seats : coins[i] >= 0

C5_Witness ==
    /\ _last_action # None
    /\ _last_action[1].decision_type = PICK_TARGET
    /\ coins[_last_action[1].player_idx] = 0

\* C6: a turn-start decision for a seat holding 10 or more coins offers
\* Coup and nothing else.
C6_ForcedCoup ==
    (IsPending(PICK_ACTION) /\ coins[Owner] >= 10)
        => pending_decision[1].options = <<CoupAction>>

C6_Witness ==
    /\ IsPending(PICK_ACTION)
    /\ coins[Owner] >= 10
    /\ _action_seq > 0

\* C7: a turn-start decision for a seat holding c < 10 coins offers Income,
\* Foreign Aid, Tax and Steal, Assassinate iff c >= 3 and Coup iff c >= 7.
C7_OfferedActions ==
    (IsPending(PICK_ACTION) /\ coins[Owner] < 10)
        => Offered = {IncomeAction, ForeignAidAction, Duke, Captain}
                       \cup (IF coins[Owner] >= 3 THEN {Assassin} ELSE {})
                       \cup (IF coins[Owner] >= 7 THEN {CoupAction} ELSE {})

C7_Witness ==
    /\ IsPending(PICK_ACTION)
    /\ coins[Owner] \in 3..6
    /\ _action_seq > 0

\* C8: a submission that is not among the offered options leaves the
\* engine as it was.
C8_UnofferedRejected == [][SubmitUnoffered => UNCHANGED engine]_vars

\* C9: a submission made while no decision is pending raises and changes
\* nothing.
C9_NoPendingRejected ==
    [][pending_decision = None
         => (UNCHANGED <<engine, _action_seq, _last_action>>
             /\ raised' = "AssertionError")]_vars

C9_Witness ==
    /\ pending_decision = None
    /\ raised = "AssertionError"
    /\ _action_seq > 0

\* C10: an empty hand stays empty, and a seat with an empty hand is never
\* offered as a target nor asked to start a turn.
C10_EliminatedForGood ==
    /\ [][\A i \in Seats : influences[i] = <<>> => influences'[i] = <<>>]_vars
    /\ [](\A i \in Seats : influences[i] = <<>> =>
            /\ IsPending(PICK_TARGET) => i \notin Offered
            /\ IsPending(PICK_ACTION) => Owner # i)

C10_Witness ==
    /\ IsPending(PICK_TARGET)
    /\ \E i \in Seats : influences[i] = <<>> /\ revealed_influences[i] # <<>>

----------------------------------------------------------------------------
(* Steps of a turn *)

\* the step is a submit_decision that was dispatched to a handler
Submitted == _action_seq' = _action_seq + 1

\* ... answering the pending decision of kind dt with choice c
Answers(dt, c) ==
    /\ IsPending(dt)
    /\ Submitted
    /\ _last_action'[1].choice = c

\* after the step a new turn starts or the game is over
TurnPasses ==
    \/ pending_decision' = None
    \/ pending_decision'[1].decision_type = PICK_ACTION

\* the first seat after a, in cyclic seating order, whose hand in inf is
\* not empty
FirstAliveAfter(inf, a) ==
    LET n == Cardinality(DOMAIN inf)
        d == CHOOSE k \in 1..n :
                /\ inf[(a + k) % n] # <<>>
                /\ \A j \in 1..(k - 1) : inf[(a + j) % n] = <<>>
    IN  (a + d) % n

\* seat d loses one influence in this step: its only card goes to the
\* discard pile at once, or it is asked which of its cards to lose
LosesOne(d) ==
    IF Len(influences[d]) = 1
    THEN /\ influences'[d] = <<>>
         /\ revealed_influences'[d] = Append(revealed_influences[d], influences[d][1])
         /\ TurnPasses
    ELSE /\ influences'[d] = influences[d]
         /\ revealed_influences'[d] = revealed_influences[d]
         /\ pending_decision' # None
         /\ pending_decision'[1].decision_type = LOSE_INFLUENCE
         /\ pending_decision'[1].player_index = d

\* answering a LOSE_INFLUENCE decision takes exactly one card from its
\* owner, nothing from anybody else, moves no coins and ends the turn
DiscardEndsTurn ==
    (IsPending(LOSE_INFLUENCE) /\ Submitted) =>
        /\ Len(influences'[Owner]) = Len(influences[Owner]) - 1
        /\ Len(revealed_influences'[Owner]) = Len(revealed_influences[Owner]) + 1
        /\ \A j \in Seats \ {Owner} :
              /\ influences'[j] = influences[j]
              /\ revealed_influences'[j] = revealed_influences[j]
        /\ coins' = coins
        /\ TurnPasses

\* C11: when a step ends a turn and the game goes on, the new turn belongs
\* to the first seat after the previous actor whose hand is then non-empty.
C11_NextTurnCyclic ==
    [][(/\ pending_decision # None
        /\ Submitted
        /\ pending_decision' # None
        /\ pending_decision'[1].decision_type = PICK_ACTION)
       => /\ pending_decision'[1].player_index
                = FirstAliveAfter(influences', current_turn)
          /\ current_turn' = pending_decision'[1].player_index]_vars

\* the seat before the new turn's owner was eliminated in play
C11_Witness ==
    /\ IsPending(PICK_ACTION)
    /\ _action_seq > 0
    /\ Cardinality(Seats) = 3
    /\ LET prev == (Owner + 2) % 3
       IN  influences[prev] = <<>> /\ revealed_influences[prev] # <<>>

\* the attacker of the Assassinate in progress, if any
AssassinateActor ==
    IF _phase_defense # None /\ _phase_defense[1].action = Assassin
        THEN {current_turn}
    ELSE IF _phase_doubt_block # None /\ _phase_doubt_block[1].action = Assassin
        THEN {_phase_doubt_block[1].attacker}
    ELSE IF _phase_reveal # None /\ _phase_reveal[1].action = Assassin
        THEN {_phase_reveal[1].attacker}
    ELSE {}

\* C12: choosing the target of an Assassinate takes exactly 3 coins from
\* the actor in that step and opens the defense window; no later step of
\* the turn (defense, block challenge, reveal, discard) changes the
\* actor's balance.
C12_AssassinateCost ==
    /\ [][(/\ IsPending(PICK_TARGET)
           /\ Submitted
           /\ _phase_action[1].action = Assassin)
          => /\ coins'[current_turn] = coins[current_turn] - 3
             /\ pending_decision' # None
             /\ pending_decision'[1].decision_type = DEFEND]_vars
    /\ [][Submitted =>
            \A a \in AssassinateActor : coins'[a] = coins[a]]_vars
    /\ [][DiscardEndsTurn]_vars

\* the block of an Assassinate was doubted, the cost stays paid
C12_Witness ==
    /\ _phase_reveal # None
    /\ _phase_reveal[1].action = Assassin
    /\ _phase_reveal[1].context = DOUBT_BLOCK
    /\ coins[_phase_reveal[1].attacker] = 6

\* the Steal that takes effect in this step, as <<actor, target>>
StealTakesEffect ==
    IF ~Submitted THEN {}
    ELSE IF Answers(DEFEND, ACCEPT) /\ _phase_defense[1].action = Captain
        THEN {<<current_turn, _phase_defense[1].target_idx>>}
    ELSE IF /\ Answers(CHALLENGE_BLOCK, DOUBT)
            /\ _phase_doubt_block[1].action = Captain
            /\ Captain \notin Elems(influences[_phase_doubt_block[1].target])
        THEN {<<_phase_doubt_block[1].attacker, _phase_doubt_block[1].target>>}
    ELSE IF /\ Answers(REVEAL, R_REVEAL)
            /\ _phase_reveal[1].context = DOUBT_ACTION
            /\ _phase_reveal[1].action = Captain
        THEN {<<_phase_reveal[1].attacker, _phase_reveal[1].target>>}
    ELSE IF /\ Answers(REVEAL, REFUSE)
            /\ _phase_reveal[1].context = DOUBT_BLOCK
            /\ _phase_reveal[1].action = Captain
        THEN {<<_phase_reveal[1].attacker, _phase_reveal[1].target>>}
    ELSE {}

\* C13: a Steal that takes effect moves min(2, t) coins from the target,
\* who held t, to the actor, and nobody else's balance changes.
C13_StealAmount ==
    [][\A at \in StealTakesEffect :
         LET a == at[1]
             t == at[2]
             m == IF coins[t] >= 2 THEN 2 ELSE coins[t]
         IN  /\ coins'[a] = coins[a] + m
             /\ coins'[t] = coins[t] - m
             /\ coins'[a] + coins'[t] = coins[a] + coins[t]
             /\ \A j \in Seats \ {a, t} : coins'[j] = coins[j]]_vars

\* a Steal was accepted by a target that held a single coin
C13_Witness ==
    /\ _last_action # None
    /\ _last_action[1].decision_type = DEFEND
    /\ _last_action[1].choice = ACCEPT
    /\ Cardinality(Seats) = 2
    /\ coins[_last_action[1].player_idx] = 0
    /\ coins[1 - _last_action[1].player_idx] = 5
    /\ \A i \in Seats : Len(influences[i]) = 2

\* C14: in the snapshot of viewer i the players list shows the cards of
\* seat i only: for every other seat the influences list is empty and
\* influence_count gives the size of the hand; the discard pile of every
\* seat is the same in the snapshots of all viewers.
C14_ViewHidesHands ==
    \A me \in {Self} :
      \A view \in {[i \in Seats |-> player_views(me, i)]} :
        \A i \in Seats :
           /\ view[i][i].influences = influences[i]
           /\ \A j \in Seats :
                 /\ j # i => view[i][j].influences = <<>>
                 /\ view[i][j].influence_count = Len(influences[j])
                 /\ \A k \in Seats :
                       view[k][j].revealed_influences
                           = view[i][j].revealed_influences

\* a snapshot hides a hand of two cards while the viewer's discard pile
\* has a card in it
C14_Witness ==
    \E i \in Seats, j \in Seats :
        /\ j # i
        /\ _action_seq > 0
        /\ get_state_view(Self, i).players[j].influence_count = 2
        /\ get_state_view(Self, i).players[j].influences = <<>>
        /\ get_state_view(Self, i).players[i].influences # <<>>
        /\ get_state_view(Self, i).players[i].revealed_influences # <<>>
        /\ get_state_view(Self, i).viewer_index = i

\* C15: picking Income gives the actor exactly 1 coin, leaves every other
\* balance, every hand and every discard pile as it was, opens no phase,
\* and in the same step offers PICK_ACTION to the next alive seat.
C15_Income ==
    [][Answers(PICK_ACTION, IncomeAction) =>
         /\ coins' = [coins EXCEPT ![Owner] = @ + 1]
         /\ influences' = influences
         /\ revealed_influences' = revealed_influences
         /\ ActivePhases' = {}
         /\ pending_decision' # None
         /\ pending_decision'[1].decision_type = PICK_ACTION
         /\ pending_decision'[1].player_index = FirstAliveAfter(influences, Owner)
         /\ pending_decision'[1].player_index # Owner]_vars

\* Income was taken and the next seat is asked for its action
C15_Witness ==
    /\ IsPending(PICK_ACTION)
    /\ _last_action # None
    /\ _last_action[1].decision_type = PICK_ACTION
    /\ _last_action[1].choice = IncomeAction
    /\ Owner # _last_action[1].player_idx

\* the seat chosen by the PICK_TARGET answer of this step
ChosenTarget ==
    CHOOSE t \in Seats : ToString(t) = _last_action'[1].choice

\* C16: choosing the target of a Coup takes 7 coins from the actor and one
\* influence from the target (at once, or by a LOSE_INFLUENCE decision of
\* the target that ends the turn when answered); no DEFEND,
\* CHALLENGE_ACTION, CHALLENGE_BLOCK, BLOCK_OR_PASS or REVEAL decision is
\* pending before the next turn starts.
C16_Coup ==
    /\ [][(/\ IsPending(PICK_TARGET)
           /\ Submitted
           /\ _phase_action[1].action = CoupAction)
          => /\ coins' = [coins EXCEPT ![current_turn] = @ - 7]
             /\ LosesOne(ChosenTarget)
             /\ \A j \in Seats \ {ChosenTarget} : influences'[j] = influences[j]
             /\ ActivePhases' \subseteq {6}]_vars
    /\ [][(IsPending(LOSE_INFLUENCE) /\ Submitted)
          => /\ TurnPasses
             /\ Len(influences'[Owner]) = Len(influences[Owner]) - 1]_vars

\* a Coup eliminated its target on the spot
C16_Witness ==
    /\ _last_action # None
    /\ _last_action[1].decision_type = PICK_TARGET
    /\ ActivePhases = {}
    /\ \E t \in Seats :
          /\ ToString(t) = _last_action[1].choice
          /\ influences[t] = <<>>
          /\ Len(revealed_influences[t]) = 1
    /\ coins[_last_action[1].player_idx] = 2

\* seats that have to lose an influence in this step: the target of a
\* Coup or of an accepted Assassinate, and an actor doubted without the
\* card claimed
MustLose ==
    IF ~Submitted THEN {}
    ELSE IF IsPending(PICK_TARGET) /\ _phase_action[1].action = CoupAction
        THEN {ChosenTarget}
    ELSE IF Answers(DEFEND, ACCEPT) /\ _phase_defense[1].action = Assassin
        THEN {_phase_defense[1].target_idx}
    ELSE IF /\ Answers(DEFEND, DOUBT_ACTION)
            /\ _phase_defense[1].action \notin Elems(influences[current_turn])
        THEN {current_turn}
    ELSE IF /\ Answers(CHALLENGE_ACTION, DOUBT)
            /\ _phase_challenge[1].action
                   \notin Elems(influences[_phase_challenge[1].actor])
        THEN {_phase_challenge[1].actor}
    ELSE {}

\* C17: LOSE_INFLUENCE is pending only for a seat holding at least two
\* cards, with the indices of that hand as options; a seat that has to
\* lose an influence while holding one card gets no decision: the card
\* goes to its discard pile in the same step, and the game is over if that
\* leaves one seat alive.
C17_LoseOneOrChoose ==
    /\ [](IsPending(LOSE_INFLUENCE) =>
            /\ Len(influences[Owner]) >= 2
            /\ pending_decision[1].options = Range0(Len(influences[Owner])))
    /\ [][\A d \in MustLose :
            /\ LosesOne(d)
            /\ Len(influences[d]) = 1 =>
                  /\ ~(pending_decision' # None
                       /\ pending_decision'[1].decision_type = LOSE_INFLUENCE)
                  /\ _phase_lose_inf' = None
                  /\ (Cardinality(Alive \ {d}) = 1 => pending_decision' = None)]_vars

\* the last opponent had to lose its only card and the game is over
C17_Witness ==
    /\ pending_decision = None
    /\ _action_seq > 0
    /\ raised = ""
    /\ _last_action # None
    /\ _last_action[1].decision_type \in {PICK_TARGET, DEFEND, CHALLENGE_ACTION}
    /\ \E d \in Seats :
          /\ influences[d] = <<>>
          /\ revealed_influences[d] # <<>>
          /\ Cardinality(Alive) = 1

\* C18: when Tax is doubted and the actor holds Duke, the actor is asked to
\* reveal; on revealing, the actor gets 3 coins and keeps the size of its
\* hand, and the seat that doubted loses one influence (at once, or by a
\* LOSE_INFLUENCE decision that ends the turn when answered).
C18_TaxDoubtedWithDuke ==
    /\ [][(/\ Answers(CHALLENGE_ACTION, DOUBT)
           /\ _phase_challenge[1].action = Duke
           /\ Duke \in Elems(influences[_phase_challenge[1].actor]))
          => /\ pending_decision' # None
             /\ pending_decision'[1].decision_type = REVEAL
             /\ pending_decision'[1].player_index = _phase_challenge[1].actor
             /\ coins' = coins
             /\ influences' = influences]_vars
    /\ [][(/\ Answers(REVEAL, R_REVEAL)
           /\ _phase_reveal[1].context = DOUBT_OPEN
           /\ _phase_reveal[1].action = Duke)
          => LET a == Owner
                 d == _last_action[1].player_idx
             IN  /\ _last_action[1].decision_type = CHALLENGE_ACTION
                 /\ _last_action[1].choice = DOUBT
                 /\ d # a
                 /\ coins' = [coins EXCEPT ![a] = @ + 3]
                 /\ Len(influences'[a]) = Len(influences[a])
                 /\ revealed_influences'[a] = revealed_influences[a]
                 /\ LosesOne(d)
                 /\ \A j \in Seats \ {a, d} : influences'[j] = influences[j]]_vars
    /\ [][(IsPending(LOSE_INFLUENCE) /\ Submitted)
          => /\ TurnPasses
             /\ Len(revealed_influences'[Owner])
                   = Len(revealed_influences[Owner]) + 1
             /\ \A j \in Seats \ {Owner} : influences'[j] = influences[j]]_vars

\* Duke was revealed to a doubter holding two cards, who now has to choose
C18_Witness ==
    /\ IsPending(LOSE_INFLUENCE)
    /\ _last_action # None
    /\ _last_action[1].decision_type = REVEAL
    /\ _last_action[1].choice = R_REVEAL
    /\ _last_action[1].player_idx = current_turn
    /\ Owner # current_turn
    /\ coins[current_turn] \in {5, 12}

\* C19: when the target doubts an Assassinate or a Steal and the actor does
\* not hold the card, the actor loses one influence, the target keeps its
\* hand, no coin moves (the cost stays paid, nothing is stolen) and no
\* defense, block or reveal phase is left open.
C19_TargetDoubtsBluff ==
    [][(/\ Answers(DEFEND, DOUBT_ACTION)
        /\ _phase_defense[1].action \in {Assassin, Captain}
        /\ _phase_defense[1].action \notin Elems(influences[current_turn]))
       => LET a == current_turn
              t == _phase_defense[1].target_idx
          IN  /\ t = Owner
              /\ t # a
              /\ LosesOne(a)
              /\ influences'[t] = influences[t]
              /\ revealed_influences'[t] = revealed_influences[t]
              /\ coins' = coins
              /\ ActivePhases' \subseteq {6}]_vars

\* an Assassinate without the Assassin was doubted by its target: the
\* actor has to choose a card and is still 3 coins short
C19_Witness ==
    /\ IsPending(LOSE_INFLUENCE)
    /\ Owner = current_turn
    /\ _last_action # None
    /\ _last_action[1].decision_type = DEFEND
    /\ _last_action[1].choice = DOUBT_ACTION
    /\ Assassin \notin Elems(influences[current_turn])
    /\ _action_seq = 3
    /\ coins[current_turn] = 6

\* the alive seats other than a, in cyclic seating order from the seat
\* after a
RECURSIVE CyclicFrom(_, _, _)
CyclicFrom(inf, a, k) ==
    LET n == Cardinality(DOMAIN inf)
        i == (a + k) % n
    IN  IF k >= n THEN <<>>
        ELSE (IF inf[i] # <<>> THEN <<i>> ELSE <<>>) \o CyclicFrom(inf, a, k + 1)

CyclicOthers(inf, a) == CyclicFrom(inf, a, 1)

\* the response queue of the open phase, if one is set
OpenQueue ==
    IF _phase_challenge # None THEN _phase_challenge[1].queue
    ELSE IF _phase_block_open # None THEN _phase_block_open[1].queue
    ELSE <<>>

\* C21: when actor a picks Foreign Aid or Tax, the response queue is the
\* alive seats other than a in cyclic order from a+1, its head is asked
\* first, and every pass hands the question to the next seat of the queue.
C21_QueueCyclic ==
    /\ [][(Answers(PICK_ACTION, ForeignAidAction) \/ Answers(PICK_ACTION, Duke))
          => /\ OpenQueue' = CyclicOthers(influences, Owner)
             /\ pending_decision' # None
             /\ pending_decision'[1].player_index
                    = CyclicOthers(influences, Owner)[1]]_vars
    /\ [][((Answers(CHALLENGE_ACTION, PASS) \/ Answers(BLOCK_OR_PASS, PASS))
           /\ Len(OpenQueue) > 1)
          => /\ OpenQueue' = Tail(OpenQueue)
             /\ pending_decision' # None
             /\ pending_decision'[1].decision_type
                    = pending_decision[1].decision_type
             /\ pending_decision'[1].player_index = OpenQueue[2]]_vars

\* the cards seat d will hold when the turn passes, counted after this
\* step: a pending discard of d takes one more card
HandAtTurnEnd(d) ==
    Len(influences'[d])
    - (IF _phase_lose_inf' # None /\ _phase_lose_inf'[1].target_idx = d
       THEN 1 ELSE 0)

\* C22: when the target doubted an Assassinate and the actor reveals
\* Assassin, the target loses two influences, one for the assassination
\* and one for the failed doubt: a target holding two cards ends the turn
\* with none.
C22_DoubtedAssassinateTakesTwo ==
    [][(/\ Answers(REVEAL, R_REVEAL)
        /\ _phase_reveal[1].context = DOUBT_ACTION
        /\ _phase_reveal[1].action = Assassin)
       => LET t == _phase_reveal[1].target
          IN  /\ HandAtTurnEnd(t) = 0
              /\ influences'[t] = <<>> => TurnPasses]_vars

\* C23: a block, by the target in DEFEND or by a queued seat against
\* Foreign Aid, is followed by a CHALLENGE_BLOCK decision of the actor;
\* CHALLENGE_BLOCK is never pending for another seat, and once the actor
\* has answered it neither CHALLENGE_BLOCK nor BLOCK_OR_PASS is pending
\* again in that turn.
C23_OnlyActorDoubtsBlock ==
    /\ [](IsPending(CHALLENGE_BLOCK) =>
            /\ Owner = current_turn
            /\ _phase_doubt_block # None
            /\ _phase_doubt_block[1].attacker = current_turn
            /\ _phase_doubt_block[1].queue = <<current_turn>>
            /\ _phase_block_open = None)
    /\ [][(Answers(DEFEND, BLOCK) \/ Answers(BLOCK_OR_PASS, BLOCK))
          => /\ pending_decision' # None
             /\ pending_decision'[1].decision_type = CHALLENGE_BLOCK
             /\ pending_decision'[1].player_index = current_turn
             /\ _phase_doubt_block'[1].target = Owner
             /\ current_turn' = current_turn]_vars
    /\ [][(IsPending(CHALLENGE_BLOCK) /\ Submitted)
          => \/ pending_decision' = None
             \/ pending_decision'[1].decision_type
                    \in {REVEAL, LOSE_INFLUENCE, PICK_ACTION}]_vars

\* the first seat of the queue blocked Foreign Aid while another seat was
\* still waiting in the queue; the actor alone is asked about the block
C23_Witness ==
    /\ IsPending(CHALLENGE_BLOCK)
    /\ _last_action # None
    /\ _last_action[1].decision_type = BLOCK_OR_PASS
    /\ _last_action[1].choice = BLOCK
    /\ Cardinality(Alive \ {current_turn, _last_action[1].player_idx}) >= 1
    /\ \E j \in Alive : j > _last_action[1].player_idx /\ j # current_turn

\* the card a block of action a claims
BlockCard(a) ==
    CASE a = Assassin         -> Countess
      [] a = Captain          -> Captain
      [] a = ForeignAidAction -> Duke

\* the block that fails in this step, as <<actor, blocker, action>>: the
\* actor doubted it and the blocker does not hold the card, or refuses to
\* reveal it
BlockFails ==
    IF ~Submitted THEN {}
    ELSE IF /\ Answers(CHALLENGE_BLOCK, DOUBT)
            /\ BlockCard(_phase_doubt_block[1].action)
                   \notin Elems(influences[_phase_doubt_block[1].target])
        THEN {<<_phase_doubt_block[1].attacker, _phase_doubt_block[1].target,
                _phase_doubt_block[1].action>>}
    ELSE IF Answers(REVEAL, REFUSE) /\ _phase_reveal[1].context = DOUBT_BLOCK
        THEN {<<_phase_reveal[1].attacker, _phase_reveal[1].challenged_player,
                _phase_reveal[1].action>>}
    ELSE {}

\* C24: when a block fails, the blocker loses one influence and nobody
\* else loses any; the coin effect of a Steal (min(2, t) from the blocker)
\* or of a Foreign Aid (+2) goes to the actor, an Assassinate moves no coin
\* and costs the blocker one influence in all.
C24_FailedBlock ==
    [][\A f \in BlockFails :
         LET a  == f[1]
             b  == f[2]
             m  == IF coins[b] >= 2 THEN 2 ELSE coins[b]
         IN  /\ a = current_turn
             /\ b # a
             /\ LosesOne(b)
             /\ HandAtTurnEnd(b) = Len(influences[b]) - 1
             /\ \A j \in Seats \ {b} :
                   /\ influences'[j] = influences[j]
                   /\ revealed_influences'[j] = revealed_influences[j]
             /\ _deck' = _deck
             /\ coins' =
                  CASE f[3] = Captain ->
                         [i \in Seats |->
                            coins[i] + (IF i = a THEN m ELSE 0)
                                     - (IF i = b THEN m ELSE 0)]
                    [] f[3] = ForeignAidAction -> [coins EXCEPT ![a] = @ + 2]
                    [] f[3] = Assassin -> coins]_vars

\* a blocker holding the card refused to show it: it has to choose a card
\* and the actor got the coins of the blocked action
C24_Witness ==
    /\ IsPending(LOSE_INFLUENCE)
    /\ Owner # current_turn
    /\ _last_action # None
    /\ _last_action[1].decision_type = REVEAL
    /\ _last_action[1].choice = REFUSE
    /\ _last_action[1].player_idx = Owner
    /\ coins[current_turn] = 4
    /\ coins[Owner] \in {0, 2}

\* C25: when a block stands the blocked action has no effect.  If the
\* actor passes on the block, no coin moves, no hand and no discard pile
\* changes, and the turn passes.  If the actor doubts and the blocker
\* reveals the card, no coin moves, the blocker keeps the size of its hand
\* and its discard pile, and the actor loses one influence.
C25_StandingBlock ==
    /\ [][Answers(CHALLENGE_BLOCK, PASS)
          => /\ coins' = coins
             /\ influences' = influences
             /\ revealed_influences' = revealed_influences
             /\ ActivePhases' = {}
             /\ pending_decision' # None
             /\ pending_decision'[1].decision_type = PICK_ACTION
             /\ pending_decision'[1].player_index
                    = FirstAliveAfter(influences, current_turn)]_vars
    /\ [][(Answers(REVEAL, R_REVEAL) /\ _phase_reveal[1].context = DOUBT_BLOCK)
          => LET a == current_turn
                 b == Owner
             IN  /\ _phase_reveal[1].attacker = a
                 /\ b # a
                 /\ coins' = coins
                 /\ Len(influences'[b]) = Len(influences[b])
                 /\ revealed_influences'[b] = revealed_influences[b]
                 /\ HandAtTurnEnd(b) = Len(influences[b])
                 /\ LosesOne(a)
                 /\ HandAtTurnEnd(a) = Len(influences[a]) - 1]_vars
    /\ [][(IsPending(LOSE_INFLUENCE) /\ Submitted) => coins' = coins]_vars

\* the blocker showed the card to the doubting actor, who has to choose
\* which card to lose
C25_Witness ==
    /\ IsPending(LOSE_INFLUENCE)
    /\ Owner = current_turn
    /\ _last_action # None
    /\ _last_action[1].decision_type = REVEAL
    /\ _last_action[1].choice = R_REVEAL
    /\ _last_action[1].player_idx # current_turn
    /\ Len(influences[_last_action[1].player_idx]) = 2

\* the challenged seat that does not prove its claim in this step, as
\* <<actor, challenged, action, context>>: it refuses to reveal ...
Refuses ==
    IF Answers(REVEAL, REFUSE)
    THEN {<<_phase_reveal[1].attacker, _phase_reveal[1].challenged_player,
            _phase_reveal[1].action, _phase_reveal[1].context>>}
    ELSE {}

\* ... or it is doubted without holding the card
CaughtWithoutCard ==
    IF ~Submitted THEN {}
    ELSE IF /\ Answers(DEFEND, DOUBT_ACTION)
            /\ _phase_defense[1].action \notin Elems(influences[current_turn])
        THEN {<<current_turn, current_turn, _phase_defense[1].action, DOUBT_ACTION>>}
    ELSE IF /\ Answers(CHALLENGE_ACTION, DOUBT)
            /\ _phase_challenge[1].action
                   \notin Elems(influences[_phase_challenge[1].actor])
        THEN {<<_phase_challenge[1].actor, _phase_challenge[1].actor,
                _phase_challenge[1].action, DOUBT_OPEN>>}
    ELSE IF /\ Answers(CHALLENGE_BLOCK, DOUBT)
            /\ BlockCard(_phase_doubt_block[1].action)
                   \notin Elems(influences[_phase_doubt_block[1].target])
        THEN {<<_phase_doubt_block[1].attacker, _phase_doubt_block[1].target,
                _phase_doubt_block[1].action, DOUBT_BLOCK>>}
    ELSE {}

\* what an unproven claim f leads to: coins, hands, discard piles, deck and
\* next decision after the step, given the state before it
UnprovenOutcome(f) ==
    LET a   == f[1]
        c   == f[2]
        m   == IF coins[c] >= 2 THEN 2 ELSE coins[c]
    IN  /\ coins' =
             IF f[4] = DOUBT_BLOCK /\ f[3] = Captain
                 THEN [i \in Seats |-> coins[i] + (IF i = a THEN m ELSE 0)
                                                - (IF i = c THEN m ELSE 0)]
             ELSE IF f[4] = DOUBT_BLOCK /\ f[3] = ForeignAidAction
                 THEN [coins EXCEPT ![a] = @ + 2]
             ELSE coins
        /\ \A j \in Seats \ {c} :
              /\ influences'[j] = influences[j]
              /\ revealed_influences'[j] = revealed_influences[j]
        /\ _deck' = _deck
        /\ IF Len(influences[c]) >= 2
           THEN /\ influences'[c] = influences[c]
                /\ revealed_influences'[c] = revealed_influences[c]
                /\ pending_decision' =
                      Some([player_index |-> c, decision_type |-> LOSE_INFLUENCE,
                            options |-> Range0(Len(influences[c]))])
           ELSE /\ influences'[c] = <<>>
                /\ revealed_influences'[c]
                      = Append(revealed_influences[c], influences[c][1])
                /\ ActivePhases' = {}
                /\ IF Cardinality(Alive \ {c}) = 1
                   THEN pending_decision' = None
                   ELSE /\ pending_decision' # None
                        /\ pending_decision'[1].decision_type = PICK_ACTION
                        /\ pending_decision'[1].player_index
                              = FirstAliveAfter(influences', a)

\* C26: in each reveal context, refusing to reveal a card one holds leads
\* to the coins, hands, discard piles and next decision that being doubted
\* without the card leads to, and the deck is not touched.
C26_RefuseIsBluff ==
    /\ [][\A f \in Refuses : UnprovenOutcome(f)]_vars
    /\ [][\A f \in CaughtWithoutCard : UnprovenOutcome(f)]_vars
    /\ [](IsPending(REVEAL) =>
            _phase_reveal[1].card_name \in Elems(influences[Owner]))

\* with a deck on the table, the actor of a Tax refused to show its Duke
\* and has to choose a card to lose; it got no coins
C26_Witness ==
    /\ IsPending(LOSE_INFLUENCE)
    /\ Owner = current_turn
    /\ _deck # None
    /\ _last_action # None
    /\ _last_action[1].decision_type = REVEAL
    /\ _last_action[1].choice = REFUSE
    /\ _last_action[1].player_idx = current_turn
    /\ Duke \in Elems(influences[current_turn])
    /\ coins[current_turn] = 2
    /\ _action_seq = 3

\* C27: every successful reveal, with or without a deck supplied, takes
\* the revealed card out of the challenged seat's hand, puts it into the
\* deck and draws one card from the deck into that hand, which keeps its
\* size.
C27_RevealExchanges ==
    [][Answers(REVEAL, R_REVEAL) =>
         LET c    == Owner
             card == _phase_reveal[1].card_name
         IN  /\ Len(influences'[c]) = Len(influences[c])
             /\ _deck # None
             /\ _deck' # None
             /\ \E d \in Cards :
                   /\ influences'[c] = Append(RemoveFirst(influences[c], card), d)
                   /\ _deck'[1] = DeckTake(DeckAdd(_deck[1], card), d)]_vars

\* the actor of the Tax or Foreign Aid in progress, if any
TaxOrAidActor ==
    IF _phase_challenge # None /\ _phase_challenge[1].action = Duke
        THEN {_phase_challenge[1].actor}
    ELSE IF _phase_block_open # None /\ _phase_block_open[1].action = ForeignAidAction
        THEN {_phase_block_open[1].actor}
    ELSE IF /\ _phase_doubt_block # None
            /\ _phase_doubt_block[1].action = ForeignAidAction
        THEN {_phase_doubt_block[1].attacker}
    ELSE IF /\ _phase_reveal # None
            /\ _phase_reveal[1].action \in {Duke, ForeignAidAction}
        THEN {_phase_reveal[1].attacker}
    ELSE {}

\* the coins this step owes to the actor of a Tax or Foreign Aid: 3 when
\* the last seat of the queue passes on the Tax or the actor shows Duke to
\* a doubter, 2 when the last seat passes on the Foreign Aid or a doubted
\* block of it is not proven, 0 in every other step
Credit ==
    IF Answers(CHALLENGE_ACTION, PASS) /\ Len(_phase_challenge[1].queue) = 1
        THEN 3
    ELSE IF /\ Answers(REVEAL, R_REVEAL)
            /\ _phase_reveal[1].context = DOUBT_OPEN
            /\ _phase_reveal[1].action = Duke
        THEN 3
    ELSE IF Answers(BLOCK_OR_PASS, PASS) /\ Len(_phase_block_open[1].queue) = 1
        THEN 2
    ELSE IF /\ Answers(CHALLENGE_BLOCK, DOUBT)
            /\ _phase_doubt_block[1].action = ForeignAidAction
            /\ Duke \notin Elems(influences[_phase_doubt_block[1].target])
        THEN 2
    ELSE IF /\ Answers(REVEAL, REFUSE)
            /\ _phase_reveal[1].context = DOUBT_BLOCK
            /\ _phase_reveal[1].action = ForeignAidAction
        THEN 2
    ELSE 0

\* C28: in a Tax or Foreign Aid turn the actor's balance changes only in
\* the step where the last queued seat passes or a doubt is resolved in the
\* actor's favour, by 3 resp. 2 coins; after that step only a discard can
\* be left in the turn, and a discard moves no coin.  Picking the action,
\* a pass with seats still queued, a block, a pass on a block, a block
\* proven and a lost challenge credit nothing.
C28_CreditedOnce ==
    /\ [][Submitted =>
            \A a \in TaxOrAidActor :
               /\ coins' = [coins EXCEPT ![a] = @ + Credit]
               /\ Credit > 0 => ActivePhases' \subseteq {6}]_vars
    /\ [][(Answers(PICK_ACTION, Duke) \/ Answers(PICK_ACTION, ForeignAidAction))
          => coins' = coins /\ TaxOrAidActor' = {current_turn}]_vars
    /\ [][(IsPending(LOSE_INFLUENCE) /\ Submitted)
          => coins' = coins /\ ActivePhases' = {}]_vars

\* in a game of three, both other seats passed on a Tax and the actor
\* got its 3 coins
C28_Witness ==
    /\ IsPending(PICK_ACTION)
    /\ Cardinality(Seats) = 3
    /\ _action_seq = 3
    /\ _last_action # None
    /\ _last_action[1].decision_type = CHALLENGE_ACTION
    /\ _last_action[1].choice = PASS
    /\ current_turn = 1
    /\ coins[0] = 5

\* C29: when the target accepts, an Assassinate takes one influence from
\* the target, none from anybody else, and moves no coin; a Steal moves
\* min(2, t) coins from the target to the actor, nobody loses an influence
\* and the next seat is asked for its action in the same step.  A discard
\* left open by the Assassinate ends the turn when answered.
C29_Accept ==
    /\ [][(Answers(DEFEND, ACCEPT) /\ _phase_defense[1].action = Assassin)
          => LET t == Owner
             IN  /\ t = _phase_defense[1].target_idx
                 /\ coins' = coins
                 /\ LosesOne(t)
                 /\ HandAtTurnEnd(t) = Len(influences[t]) - 1
                 /\ ActivePhases' \subseteq {6}
                 /\ \A j \in Seats \ {t} :
                       /\ influences'[j] = influences[j]
                       /\ revealed_influences'[j] = revealed_influences[j]]_vars
    /\ [][(Answers(DEFEND, ACCEPT) /\ _phase_defense[1].action = Captain)
          => LET t == Owner
                 a == current_turn
                 m == IF coins[t] >= 2 THEN 2 ELSE coins[t]
             IN  /\ coins' = [i \in Seats |->
                                coins[i] + (IF i = a THEN m ELSE 0)
                                         - (IF i = t THEN m ELSE 0)]
                 /\ influences' = influences
                 /\ revealed_influences' = revealed_influences
                 /\ ActivePhases' = {}
                 /\ pending_decision' # None
                 /\ pending_decision'[1].decision_type = PICK_ACTION
                 /\ pending_decision'[1].player_index
                        = FirstAliveAfter(influences, a)]_vars
    /\ [][(IsPending(LOSE_INFLUENCE) /\ Submitted)
          => TurnPasses /\ coins' = coins]_vars

\* the target accepted an Assassinate and has to choose the card it loses
C29_Witness ==
    /\ IsPending(LOSE_INFLUENCE)
    /\ _last_action # None
    /\ _last_action[1].decision_type = DEFEND
    /\ _last_action[1].choice = ACCEPT
    /\ _last_action[1].player_idx = Owner
    /\ Owner # current_turn
    /\ coins[current_turn] = 6

\* C30: the seat a pending decision is addressed to holds at least one
\* card, whatever the kind of decision, and so does the seat the turn
\* pointer names while a decision is pending.
C30_PendingOwnerAlive ==
    pending_decision # None =>
        /\ Owner \in Seats
        /\ influences[Owner] # <<>>
        /\ current_turn \in Seats
        /\ influences[current_turn] # <<>>

\* a seat was eliminated and the game goes on with a decision that is not
\* a turn start
C30_Witness ==
    /\ pending_decision # None
    /\ pending_decision[1].decision_type
           \in {CHALLENGE_ACTION, BLOCK_OR_PASS, PICK_TARGET}
    /\ \E d \in Seats : influences[d] = <<>> /\ revealed_influences[d] # <<>>
    /\ _action_seq > 2

\* C31: while a REVEAL decision is pending, the hand of the seat asked
\* holds the card claimed: answering REVEAL always proves the claim, the
\* seat that reveals loses no influence in that turn.
C31_RevealHoldsCard ==
    /\ [](IsPending(REVEAL) =>
            /\ _phase_reveal # None
            /\ Owner = _phase_reveal[1].challenged_player
            /\ \E k \in DOMAIN influences[Owner] :
                  influences[Owner][k] = _phase_reveal[1].card_name)
    /\ [][Answers(REVEAL, R_REVEAL) =>
            /\ HandAtTurnEnd(Owner) = Len(influences[Owner])
            /\ revealed_influences'[Owner] = revealed_influences[Owner]]_vars

\* a seat holding one card only is asked to reveal it
C31_Witness ==
    /\ IsPending(REVEAL)
    /\ Len(influences[Owner]) = 1
    /\ influences[Owner][1] = _phase_reveal[1].card_name
    /\ _phase_reveal[1].context = DOUBT_BLOCK

\* the queue of the pending CHALLENGE_ACTION, CHALLENGE_BLOCK or
\* BLOCK_OR_PASS decision
AskedQueue ==
    IF IsPending(CHALLENGE_ACTION) THEN _phase_challenge[1].queue
    ELSE IF IsPending(CHALLENGE_BLOCK) THEN _phase_doubt_block[1].queue
    ELSE IF IsPending(BLOCK_OR_PASS) THEN _phase_block_open[1].queue
    ELSE <<>>

\* C32: while CHALLENGE_ACTION, CHALLENGE_BLOCK or BLOCK_OR_PASS is
\* pending, the queue of its phase is not empty, names no seat twice, names
\* alive seats only and has the seat asked at its head; the queues of an
\* action challenge and of an open block do not name the actor; a pass
\* drops the head of the queue, so no seat is asked twice.
C32_QueueSound ==
    /\ [](IsPending(CHALLENGE_ACTION) \/ IsPending(CHALLENGE_BLOCK)
             \/ IsPending(BLOCK_OR_PASS)
          => /\ AskedQueue # <<>>
             /\ Owner = AskedQueue[1]
             /\ \A j, k \in DOMAIN AskedQueue :
                   j # k => AskedQueue[j] # AskedQueue[k]
             /\ \A k \in DOMAIN AskedQueue :
                   /\ AskedQueue[k] \in Seats
                   /\ influences[AskedQueue[k]] # <<>>
             /\ IsPending(CHALLENGE_ACTION) =>
                   \A k \in DOMAIN AskedQueue :
                      AskedQueue[k] # _phase_challenge[1].actor
             /\ IsPending(BLOCK_OR_PASS) =>
                   \A k \in DOMAIN AskedQueue :
                      AskedQueue[k] # _phase_block_open[1].actor)
    /\ [][(/\ Submitted
           /\ AskedQueue # <<>>
           /\ AskedQueue' # <<>>
           /\ pending_decision'[1].decision_type
                  = pending_decision[1].decision_type)
          => /\ AskedQueue' = Tail(AskedQueue)
             /\ \A k \in DOMAIN AskedQueue' : AskedQueue'[k] # Owner]_vars

\* in a game of three, the first of the two queued seats passed and the
\* second is asked
C32_Witness ==
    /\ IsPending(CHALLENGE_ACTION) \/ IsPending(BLOCK_OR_PASS)
    /\ Len(AskedQueue) = 1
    /\ _last_action # None
    /\ _last_action[1].choice = PASS
    /\ _last_action[1].decision_type = pending_decision[1].decision_type
    /\ Cardinality(Alive) = 3
    /\ Owner # _last_action[1].player_idx

\* the cards all hands will hold once the discard that is pending, if
\* any, is made
RECURSIVE CardsUpTo(_, _)
CardsUpTo(inf, i) ==
    IF i < 0 THEN 0 ELSE Len(inf[i]) + CardsUpTo(inf, i - 1)

CardsHeld ==
    CardsUpTo(influences, Cardinality(Seats) - 1)
    - (IF _phase_lose_inf # None THEN 1 ELSE 0)

C34_CoinsAtMost12 ==
    /\ [](\A i \in Seats : coins[i] <= 12)
    /\ [][\A i \in Seats : coins'[i] > coins[i] => i = current_turn]_vars
    /\ []((IsPending(PICK_ACTION) /\ coins[Owner] >= 10)
            => pending_decision[1].options = <<CoupAction>>)

\* a seat holds 12 coins at the start of its turn and is offered Coup only
C34_Witness ==
    /\ IsPending(PICK_ACTION)
    /\ coins[Owner] = 12
    /\ pending_decision[1].options = <<CoupAction>>
    /\ _action_seq >= 3

\* C35: with a deck, the copies of every card over the deck, all hands and
\* all discard piles (the cards_per_type of the snapshot) are the same
\* after every step as before it: a discard moves a card from a hand to a
\* discard pile, a reveal exchange moves one card into the deck and one
\* out of it.
C35_CardsConserved ==
    [][_deck # None =>
         /\ _deck' # None
         /\ \/ UNCHANGED <<_deck, influences, revealed_influences>>
            \/ /\ cards_per_type(Self)' = cards_per_type(Self)
               /\ get_state_view(Self, current_turn).cards_per_type
                     = cards_per_type(Self)]_vars

\* a reveal exchange changed the deck, and a card has been discarded
C35_Witness ==
    /\ _deck # None
    /\ _last_action # None
    /\ _last_action[1].decision_type = REVEAL
    /\ _last_action[1].choice = R_REVEAL
    /\ _deck[1][Duke] = 1
    /\ _deck[1][Countess] = 0
    /\ \E i \in Seats : Countess \in Elems(influences[i])
    /\ \E d \in Seats : revealed_influences[d] # <<>>

\* an upper bound on the submissions the turn still takes from the pending
\* decision, read off the successor decisions of each handler; 0 at a turn
\* start and when the game is over
Rank ==
    IF pending_decision = None \/ IsPending(PICK_ACTION) THEN 0
    ELSE IF IsPending(LOSE_INFLUENCE) THEN 1
    ELSE IF IsPending(REVEAL) THEN 2
    ELSE IF IsPending(CHALLENGE_BLOCK) THEN 3
    ELSE IF IsPending(DEFEND) THEN 4
    ELSE IF IsPending(PICK_TARGET) THEN 5
    ELSE IF IsPending(CHALLENGE_ACTION) THEN Len(AskedQueue) + 2
    ELSE Len(AskedQueue) + 3

\* max(5, n + 2) for a table of n seats
TurnBound ==
    IF Cardinality(Seats) + 2 > 5 THEN Cardinality(Seats) + 2 ELSE 5

\* C36: every turn completes within max(5, n + 2) submissions after its
\* PICK_ACTION: the decision that follows a PICK_ACTION is at most that many
\* submissions from the end of the turn, every later submission of the turn
\* comes at least one closer, and the turn ends with the game over or with
\* PICK_ACTION pending for a player other than the one whose turn it was.
C36_TurnCompletes ==
    [][Submitted =>
         /\ IsPending(PICK_ACTION) => Rank' <= TurnBound
         /\ ~IsPending(PICK_ACTION) => Rank' < Rank
         /\ Rank' = 0 /\ pending_decision' # None =>
               /\ pending_decision'[1].player_index # current_turn
               /\ pending_decision'[1].player_index = current_turn']_vars

\* a turn of a three-seat table that took all of max(5, 3 + 2) further
\* submissions: Foreign Aid, a pass, a block, the doubt, the reveal and the
\* doubter's discard, after which the second seat is to pick
C36_Witness ==
    /\ IsPending(PICK_ACTION)
    /\ Cardinality(Seats) = 3
    /\ Owner = 1
    /\ _action_seq = 6
    /\ _last_action[1].decision_type = LOSE_INFLUENCE
    /\ _last_action[1].player_idx = 0
    /\ \A i \in Seats : coins[i] \in StartCoins
    /\ Len(influences[0]) = 1 /\ Len(influences[1]) = 2 /\ Len(influences[2]) = 2

\* the hands of another deal that viewer i cannot tell from this one by
\* looking at a hand: i's own hand and every hand size are as they are, one
\* card of one other seat is a different card
OtherDeals(i) ==
    UNION { { [influences EXCEPT ![j][k] = c] :
                 k \in 1..Len(influences[j]), c \in Cards } :
            j \in Seats \ {i} }

\* C37: the snapshot for viewer i is the same in two engine states that
\* differ only in which cards the other seats hold (same hand sizes),
\* cards_per_type included, with a deck and without one.
C37_ViewNonInterference ==
    \A i \in Seats :
       \A h \in OtherDeals(i) :
          get_state_view([Self EXCEPT !.influences = h], i)
             = get_state_view(Self, i)

\* the tasks that are running _game_loop
Loops == {k \in Tasks : tasks[k] = "_game_loop"}

\* the tasks whose start_game returned at the guard
Returned == {k \in Tasks : tasks[k] = "returned"}

\* C38: however the start is asked for, one GameEngine at most is built
\* and one task at most runs the game loop; the game counts as started
\* exactly when the engine has been built, and every submit_decision is a
\* step taken while that one loop is the only one.
C38_StartsOnce ==
    /\ [](/\ engines_built <= 1
          /\ Cardinality(Loops) <= 1
          /\ _game_started <=> engines_built = 1
          /\ _start_event <=> _game_started)
    /\ [][_action_seq' # _action_seq =>
             /\ Cardinality(Loops) = 1
             /\ engines_built' = engines_built]_vars

\* three tasks asked for the start (two spawned by joining clients and the
\* console or the host), one built the engine and runs the loop, two
\* returned at the guard, and the loop has submitted a choice
C38_Witness ==
    /\ engines_built = 1
    /\ Cardinality(Loops) = 1
    /\ Cardinality(Returned) >= 2
    /\ _action_seq >= 1

\* the pending decision is a human player's and the game loop takes the
\* oldest choice off that player's queue
HumanChoiceTaken ==
    /\ pending_decision # None
    /\ Owner \in DOMAIN _human_queues
    /\ _human_queues[Owner] # <<>>
    /\ _human_queues' = [_human_queues EXCEPT ![Owner] = Tail(@)]

\* the choice the game loop takes, as its client sent it
TakenChoice == Head(_human_queues[Owner])

\* C39: a choice the server submits for a human player was put on the wire
\* while the decision it answers was pending for that player: no
\* submission has happened between the message and its use.
C39_AnsweredWhilePending ==
    [][HumanChoiceTaken /\ Submitted =>
          TakenChoice.sent_at = _action_seq]_vars

\* C40: a human player's choice reaches submit_decision only if it is one
\* of the pending decision's options; any other value is dropped and the
\* same decision stays pending.
C40_OnlyOfferedSubmitted ==
    [][HumanChoiceTaken =>
          \A choice \in {_deserialize_choice(TakenChoice.choice,
                                             pending_decision[1])} :
             IF choice # None /\ choice[1] \in Offered
             THEN Submitted
             ELSE UNCHANGED game]_vars

====
